---- MODULE Spec2Model ----
(***************************************************************************)
(* Model of the Flight SQL client of qualithm/arrow-flight-sql-js:         *)
(*   - the varint codec and the protobuf Any envelope codec of client.ts,  *)
(*   - the input validation of errors.ts,                                  *)
(*   - the operations of FlightSqlClient, run against a transport whose    *)
(*     replies are chosen nondeterministically.                            *)
(*                                                                         *)
(* Buffers are sequences of bytes (0..255); a JavaScript offset o names    *)
(* element o+1 of the sequence.  Strings are sequences of code points.     *)
(***************************************************************************)
EXTENDS Integers, Sequences, FiniteSets, TLC

VARIABLES
    vi,       \* one varint write/read exercise (writeVarInt, readVarInt)
    codec,    \* one envelope exercise: inputs, packed bytes, unpackAny scan
    call,     \* the logical operation of FlightSqlClient in progress
    transport, \* what the transport (FlightClient) has been asked to do
    closed,   \* history: the handles and transaction ids ended so far
    slots     \* logical operations in progress at the same time, each with
              \* the transport stream of its own

vars == <<vi, codec, call, transport, closed, slots>>

(***************************************************************************)
(* JavaScript numbers and 32-bit integer operators.                        *)
(*                                                                         *)
(* TLC's integers are 32-bit signed, so an int32 is a plain integer and    *)
(* an unsigned value up to 2^32-1 is a pair [hi, lo] of 16-bit limbs       *)
(* standing for hi * 65536 + lo.                                           *)
(***************************************************************************)
Limb == 256 * 256
MaxInt32 == 32767 * Limb + 65535
\* the value of a read outside a buffer; no byte
Undefined == 0 - 1

Num(hi, lo) == [hi |-> hi, lo |-> lo]

\* the pair standing for a TLC integer (negative integers get a negative hi)
NumOfInt(i) == [hi |-> i \div Limb, lo |-> i % Limb]

RECURSIVE Pow2(_)
Pow2(n) == IF n = 0 THEN 1 ELSE 2 * Pow2(n - 1)

RECURSIVE Or16(_, _, _)
Or16(a, b, n) ==
    IF n = 0 THEN 0
    ELSE (IF a % 2 = 1 \/ b % 2 = 1 THEN 1 ELSE 0) + (2 * Or16(a \div 2, b \div 2, n - 1))

\* ToInt32 of the 32 bits hi:lo
Int32OfBits(hi, lo) == ((IF hi >= 32768 THEN hi - Limb ELSE hi) * Limb) + lo

\* x | y on int32 operands
Or32(x, y) ==
    Int32OfBits(Or16((x \div Limb) % Limb, (y \div Limb) % Limb, 16),
                Or16(x % Limb, y % Limb, 16))

\* b << s for 0 <= b <= 127: the shift count is taken modulo 32 and the
\* result is truncated to 32 bits and read as signed
Shl32(b, s) ==
    LET k == s % 32
    IN  IF k < 16
        THEN LET t == b * Pow2(k) IN Int32OfBits((t \div Limb) % Limb, t % Limb)
        ELSE Int32OfBits((b * Pow2(k - 16)) % Limb, 0)

\* value >>> 7 on an unsigned pair
Ushr7(n) == [hi |-> n.hi \div 128, lo |-> ((n.hi % 128) * 512) + (n.lo \div 128)]

\* value >= 0x80 on an unsigned pair
Ge128(n) == n.hi > 0 \/ n.lo >= 128

\* a + b on doubles holding integers; every sum above MaxInt32 is beyond
\* any buffer length of the model and is kept as MaxInt32
JsAdd(a, b) == IF b > 0 /\ a > MaxInt32 - b THEN MaxInt32 ELSE a + b

(***************************************************************************)
(* Buffer primitives (Node Buffer / Uint8Array).                           *)
(***************************************************************************)
\* Buffer.alloc(n)
Zeros(n) == [i \in 1..n |-> 0]

\* buffer[offset]: undefined outside the buffer
At(buffer, offset) ==
    IF offset >= 0 /\ offset < Len(buffer) THEN buffer[offset + 1] ELSE Undefined

\* undefined coerces to 0 under the bitwise operators
Bits(x) == IF x = Undefined THEN 0 ELSE x

\* buffer[offset] = byte: ignored outside the buffer, stored modulo 256
SetAt(buffer, offset, byte) ==
    IF offset >= 0 /\ offset < Len(buffer)
    THEN [buffer EXCEPT ![offset + 1] = byte % 256]
    ELSE buffer

\* source.copy(target, targetStart)
Copy(source, target, targetStart) ==
    [i \in 1..Len(target) |->
        IF i - 1 >= targetStart /\ i - 1 - targetStart < Len(source)
        THEN source[i - targetStart]
        ELSE target[i]]

\* buffer.subarray(start, end): negative indices count from the end, both
\* are clamped to the buffer
Subarray(buffer, start, end) ==
    LET len == Len(buffer)
        Rel(i) == IF i < 0 THEN (IF len + i < 0 THEN 0 ELSE len + i)
                  ELSE (IF i > len THEN len ELSE i)
        from == Rel(start)
        to == Rel(end)
    IN  IF to <= from THEN <<>> ELSE SubSeq(buffer, from + 1, to)

(***************************************************************************)
(* Varint codec (client.ts).                                               *)
(***************************************************************************)
RECURSIVE varIntSizeLoop(_, _)
varIntSizeLoop(value, size) ==
    IF Ge128(value) THEN varIntSizeLoop(Ushr7(value), size + 1) ELSE size

varIntSize(value) == varIntSizeLoop(value, 1)

\* faulty variant: the value is stored in one byte, without the loop
writeVarIntLowByte(buffer, offset, value) ==
    [buffer |-> SetAt(buffer, offset, value.lo % 256), offset |-> offset + 1]

RECURSIVE writeVarInt(_, _, _)
writeVarInt(buffer, offset, value) ==
    IF Ge128(value)
    THEN writeVarInt(SetAt(buffer, offset, (value.lo % 128) + 128), offset + 1, Ushr7(value))
    ELSE [buffer |-> SetAt(buffer, offset, value.lo), offset |-> offset + 1]

RECURSIVE readVarIntLoop(_, _, _, _, _)
readVarIntLoop(buffer, offset, value, shift, bytesRead) ==
    IF ~(offset < Len(buffer))
    THEN [value |-> value, bytesRead |-> bytesRead]
    ELSE LET byte == Bits(At(buffer, offset))
             value2 == Or32(value, Shl32(byte % 128, shift))
         IN  IF byte \div 128 = 0
             THEN [value |-> value2, bytesRead |-> bytesRead + 1]
             ELSE readVarIntLoop(buffer, offset + 1, value2, shift + 7, bytesRead + 1)

\* faulty variant: the loop body runs once, for the first byte only
readVarIntOneByte(buffer, offset) ==
    [value |-> Bits(At(buffer, offset)) % 128, bytesRead |-> 1]

readVarInt(buffer, offset) == readVarIntLoop(buffer, offset, 0, 0, 0)

(***************************************************************************)
(* Envelope codec: packAny / unpackAny (client.ts).                        *)
(***************************************************************************)
\* Buffer.from(string, "utf8") on a string of BMP code units; a lone
\* surrogate is encoded as U+FFFD
Utf8Char(c) ==
    IF c < 128 THEN <<c>>
    ELSE IF c < 2048 THEN <<192 + (c \div 64), 128 + (c % 64)>>
    ELSE IF c >= 55296 /\ c <= 57343 THEN <<239, 191, 189>>
    ELSE <<224 + (c \div 4096), 128 + ((c \div 64) % 64), 128 + (c % 64)>>

RECURSIVE Utf8(_)
Utf8(str) ==
    IF Len(str) = 0 THEN <<>>
    ELSE IF Len(str) = 1 THEN Utf8Char(str[1])
    ELSE LET half == Len(str) \div 2
         IN  Utf8(SubSeq(str, 1, half)) \o Utf8(SubSeq(str, half + 1, Len(str)))

packAny(typeUrl, data) ==
    LET typeUrlBytes == Utf8(typeUrl)
        typeUrlLen == Len(typeUrlBytes)
        dataLen == Len(data)
        typeUrlVarIntSize == varIntSize(NumOfInt(typeUrlLen))
        dataVarIntSize == varIntSize(NumOfInt(dataLen))
        totalSize == 1 + typeUrlVarIntSize + typeUrlLen + 1 + dataVarIntSize + dataLen
        b0 == Zeros(totalSize)
        b1 == SetAt(b0, 0, 10)
        w1 == writeVarInt(b1, 1, NumOfInt(typeUrlLen))
        b2 == Copy(typeUrlBytes, w1.buffer, w1.offset)
        o2 == w1.offset + typeUrlLen
        b3 == SetAt(b2, o2, 18)
        w2 == writeVarInt(b3, o2 + 1, NumOfInt(dataLen))
    IN  Copy(data, w2.buffer, w2.offset)

\* one iteration of unpackAny's while loop on the scan state
\* st = [offset, valueBytes]
unpackAnyIter(buffer, st) ==
    LET tag == Bits(At(buffer, st.offset))
        offset1 == st.offset + 1
        fieldNumber == tag \div 8
        wireType == tag % 8
    IN  IF wireType # 2
        THEN [offset |-> offset1, valueBytes |-> st.valueBytes]
        ELSE LET r == readVarInt(buffer, offset1)
                 length == r.value
                 offset2 == offset1 + r.bytesRead
             IN  [offset |-> JsAdd(offset2, length),
                  valueBytes |->
                      IF fieldNumber = 2
                      THEN Subarray(buffer, offset2, JsAdd(offset2, length))
                      ELSE st.valueBytes]

\* the result of a scan that never ends; no buffer
Diverges == <<Undefined>>

\* The while loop of unpackAny.  The control of the loop depends on the
\* offset alone, so a scan that has not ended after Len(buffer) + 1
\* iterations at offsets inside the buffer repeats an offset and never
\* ends: Diverges.  Below offset 0 every iteration reads undefined and
\* adds one, up to offset 0.
RECURSIVE unpackAnyLoop(_, _, _)
unpackAnyLoop(buffer, st, fuel) ==
    IF ~(st.offset < Len(buffer)) THEN st.valueBytes
    ELSE IF fuel = 0 THEN Diverges
    ELSE IF st.offset < 0 THEN unpackAnyLoop(buffer, [st EXCEPT !.offset = 0], fuel)
    ELSE unpackAnyLoop(buffer, unpackAnyIter(buffer, st), fuel - 1)

unpackAny(buffer) ==
    unpackAnyLoop(buffer, [offset |-> 0, valueBytes |-> <<>>], Len(buffer) + 1)

(***************************************************************************)
(* Values of the variables while the part of the program they belong to    *)
(* is not exercised.                                                       *)
(***************************************************************************)
ViIdle == [pc |-> "idle"]
CodecIdle == [pc |-> "idle"]
CallIdle ==
    [pc |-> "idle", op |-> "none", method |-> "none", args |-> [none |-> TRUE],
     outcome |-> [kind |-> "pending"]]
TransportIdle == [log |-> <<>>, reply |-> [kind |-> "none"], yielded |-> <<>>]
SlotsIdle == <<>>

(***************************************************************************)
(* The varint exercise: writeVarInt into a fresh buffer at offset 0, then  *)
(* readVarInt at offset 0.                                                 *)
(***************************************************************************)
VarIntHi == {0, 1, 31, 32, 4095, 4096, 32767, 32768, 65535}
VarIntLo == {0, 1, 127, 128, 16383, 16384, 65535}
\* sample of [0, 2^32 - 1] around every change of the encoded size and
\* around 2^31
VarIntValues == {Num(h, l) : h \in VarIntHi, l \in VarIntLo}

InitVarInt ==
    /\ vi \in {[pc |-> "start", value |-> v, buffer |-> <<>>,
                read |-> [value |-> 0, bytesRead |-> 0]] : v \in VarIntValues}
    /\ codec = CodecIdle
    /\ call = CallIdle
    /\ transport = TransportIdle
    /\ closed = {}
    /\ slots = SlotsIdle

VarIntWrite ==
    /\ vi.pc = "start"
    /\ vi' = [vi EXCEPT !.pc = "written",
                        !.buffer = writeVarInt(Zeros(varIntSize(vi.value)), 0, vi.value).buffer]
    /\ UNCHANGED <<codec, call, transport, closed, slots>>

VarIntRead ==
    /\ vi.pc = "written"
    /\ vi' = [vi EXCEPT !.pc = "read", !.read = readVarInt(vi.buffer, 0)]
    /\ UNCHANGED <<codec, call, transport, closed, slots>>

NextVarInt == VarIntWrite \/ VarIntRead

SpecVarInt == InitVarInt /\ [][NextVarInt]_vars

(***************************************************************************)
(* The envelope exercise: packAny, an optional extra field spliced into    *)
(* the envelope, then unpackAny one loop iteration at a time.              *)
(***************************************************************************)
MaxPayloadLen == 2
LongLen == 130

RECURSIVE SeqsUpTo(_, _)
SeqsUpTo(S, n) ==
    IF n = 0 THEN {<<>>}
    ELSE LET shorter == SeqsUpTo(S, n - 1)
         IN  shorter \cup {Append(q, b) : q \in {r \in shorter : Len(r) = n - 1}, b \in S}

PayloadBytes == {0, 10, 18, 255}
Payloads == SeqsUpTo(PayloadBytes, MaxPayloadLen) \cup {[i \in 1..LongLen |-> 7]}

\* "", "A", "t/" followed by e-acute and the euro sign, a lone surrogate,
\* and a type URL longer than 127 bytes
TypeUrls == {<<>>, <<65>>, <<116, 47, 233, 8364>>, <<55296>>, [i \in 1..LongLen |-> 97]}

\* extra fields of field number 1, 3 and 15: varint (wire type 0), 64-bit
\* (1), length-delimited (2) and 32-bit (5)
ExtraFields ==
    {<<t>> \o v : t \in {8, 24, 120}, v \in {<<1>>, <<10>>, <<18>>, <<150, 1>>}}
    \cup {<<25, 0, 0, 0, 0, 0, 0, 0, 0>>, <<25, 1, 2, 3, 4, 5, 6, 7, 8>>}
    \cup {<<29, 0, 0, 0, 0>>, <<29, 18, 0, 0, 0>>}
    \cup {<<26, 0>>, <<26, 2, 18, 7>>, <<10, 1, 65>>}

\* the length of field 1 of packAny(typeUrl, data)
Field1Len(typeUrl) ==
    1 + varIntSize(NumOfInt(Len(Utf8(typeUrl)))) + Len(Utf8(typeUrl))

\* the envelope with the extra field before field 1, between field 1 and
\* field 2, or after field 2
Splice(envelope, extra, where, at) ==
    CASE where = "none" -> envelope
      [] where = "front" -> extra \o envelope
      [] where = "middle" ->
            SubSeq(envelope, 1, at) \o extra \o SubSeq(envelope, at + 1, Len(envelope))
      [] where = "end" -> envelope \o extra

CodecInputs ==
    {[typeUrl |-> t, data |-> d, where |-> "none", extra |-> <<>>] :
        t \in TypeUrls, d \in Payloads}
    \cup {[typeUrl |-> t, data |-> d, where |-> w, extra |-> x] :
            t \in TypeUrls, d \in Payloads,
            w \in {"front", "middle", "end"}, x \in ExtraFields}

InitCodec ==
    /\ codec \in {[pc |-> "start", typeUrl |-> in.typeUrl, data |-> in.data,
                   where |-> in.where, extra |-> in.extra,
                   buffer |-> <<>>, offset |-> 0, valueBytes |-> <<>>] : in \in CodecInputs}
    /\ vi = ViIdle
    /\ call = CallIdle
    /\ transport = TransportIdle
    /\ closed = {}
    /\ slots = SlotsIdle

CodecPack ==
    /\ codec.pc = "start"
    /\ codec' = [codec EXCEPT
                    !.pc = "scan",
                    !.buffer = Splice(packAny(codec.typeUrl, codec.data), codec.extra,
                                      codec.where, Field1Len(codec.typeUrl)),
                    !.offset = 0,
                    !.valueBytes = <<>>]
    /\ UNCHANGED <<vi, call, transport, closed, slots>>

\* one iteration of the while loop of unpackAny
CodecScanIter ==
    /\ codec.pc = "scan"
    /\ codec.offset < Len(codec.buffer)
    /\ LET st == unpackAnyIter(codec.buffer,
                               [offset |-> codec.offset, valueBytes |-> codec.valueBytes])
       IN  codec' = [codec EXCEPT !.offset = st.offset, !.valueBytes = st.valueBytes]
    /\ UNCHANGED <<vi, call, transport, closed, slots>>

\* the loop condition fails: return valueBytes
CodecScanReturn ==
    /\ codec.pc = "scan"
    /\ ~(codec.offset < Len(codec.buffer))
    /\ codec' = [codec EXCEPT !.pc = "done"]
    /\ UNCHANGED <<vi, call, transport, closed, slots>>

NextCodec == CodecPack \/ CodecScanIter \/ CodecScanReturn

SpecCodec == InitCodec /\ [][NextCodec]_vars

(***************************************************************************)
(* The scan of unpackAny on buffers that no packAny wrote: a tag, a length *)
(* varint that is well formed, larger than what remains, without a last    *)
(* byte, or of five bytes, and what follows it.                            *)
(***************************************************************************)
LengthVarInts ==
    {<<1>>, <<5>>, <<255, 255, 255>>, <<128, 128, 128, 128, 16>>,
     <<249, 255, 255, 255, 15>>, <<255, 255, 255, 255, 15>>}

RawBuffers ==
    {<<tag>> \o length \o rest :
        tag \in {10, 18}, length \in LengthVarInts, rest \in SeqsUpTo({1, 18}, MaxPayloadLen)}

InitScan ==
    /\ codec \in {[pc |-> "scan", typeUrl |-> <<>>, data |-> <<>>,
                   where |-> "raw", extra |-> <<>>,
                   buffer |-> b, offset |-> 0, valueBytes |-> <<>>] : b \in RawBuffers}
    /\ vi = ViIdle
    /\ call = CallIdle
    /\ transport = TransportIdle
    /\ closed = {}
    /\ slots = SlotsIdle

NextScan == CodecScanIter \/ CodecScanReturn

SpecScan == InitScan /\ [][NextScan]_vars

(***************************************************************************)
(* Errors and input validation (errors.ts).                                *)
(***************************************************************************)
None == [set |-> FALSE]
Some(v) == [set |-> TRUE, value |-> v]

\* new FlightSqlError(message, sqlCode, options): flightCode is
\* options?.flightCode ?? "INVALID_ARGUMENT"
FlightSqlError(message, sqlCode, flightCode) ==
    [name |-> "FlightSqlError", message |-> message, sqlCode |-> sqlCode,
     code |-> IF flightCode.set THEN flightCode.value ELSE "INVALID_ARGUMENT"]

Ok == [ok |-> TRUE]
Throw(error) == [ok |-> FALSE, error |-> error]

\* WhiteSpace and LineTerminator code units, as String.prototype.trim
\* strips them
IsWhiteSpace(c) ==
    \/ c \in {9, 10, 11, 12, 13, 32, 160, 5760, 8232, 8233, 8239, 8287, 12288, 65279}
    \/ (c >= 8192 /\ c <= 8202)

\* query.trim()
Trim(str) ==
    LET keep == {i \in 1..Len(str) : ~IsWhiteSpace(str[i])}
    IN  IF keep = {} THEN <<>>
        ELSE SubSeq(str, CHOOSE i \in keep : \A j \in keep : i <= j,
                         CHOOSE i \in keep : \A j \in keep : i >= j)

\* faulty variant: the query is not trimmed before the length check
validateQueryNoTrim(query) ==
    IF Len(query) = 0
    THEN Throw(FlightSqlError("query cannot be empty", "INVALID_QUERY", None))
    ELSE Ok

validateQuery(query) ==
    IF Len(query) = 0 \/ Len(Trim(query)) = 0
    THEN Throw(FlightSqlError("query cannot be empty", "INVALID_QUERY", None))
    ELSE Ok

\* faulty variant: the handle is not checked
validateHandleLax(handle, name) == Ok

\* faulty variant: a handle is refused unless the client holds a record of
\* it as open, and it holds no record
validateHandleKnown(handle, name) ==
    Throw(FlightSqlError(name \o " is not open", "INVALID_HANDLE", None))

validateHandle(handle, name) ==
    IF Len(handle) = 0
    THEN Throw(FlightSqlError(name \o " cannot be empty", "INVALID_HANDLE", None))
    ELSE Ok

\* faulty variant: the error is built without its flightCode option
validateTransactionIdDefaultCode(transactionId) ==
    IF Len(transactionId) = 0
    THEN Throw(FlightSqlError("transaction ID cannot be empty", "TRANSACTION_ERROR", None))
    ELSE Ok

validateTransactionId(transactionId) ==
    IF Len(transactionId) = 0
    THEN Throw(FlightSqlError("transaction ID cannot be empty", "TRANSACTION_ERROR",
                              Some("FAILED_PRECONDITION")))
    ELSE Ok

validateParameterData(params) ==
    IF Len(params.schema) = 0
    THEN Throw(FlightSqlError("parameter schema is required", "INVALID_PARAMETER", None))
    ELSE IF Len(params.data) = 0
    THEN Throw(FlightSqlError("parameter data is required", "INVALID_PARAMETER", None))
    ELSE Ok

(***************************************************************************)
(* Domain message codecs.  The generated module FlightSql.js is not part   *)
(* of the sources; the decoders are the standard protobuf decoding of the  *)
(* fixed schemas: the last occurrence of a field wins, an absent bytes or  *)
(* integer field takes its default, an absent optional field is unset.     *)
(***************************************************************************)
RECURSIVE ProtoScan(_, _, _, _, _)
ProtoScan(bytes, offset, field, wireType, found) ==
    IF ~(offset < Len(bytes)) THEN found
    ELSE LET tag == bytes[offset + 1]
             r == readVarInt(bytes, offset + 1)
             after == offset + 1 + r.bytesRead
             hit == (tag \div 8 = field) /\ (tag % 8 = wireType)
         IN  CASE tag % 8 = 0 ->
                    ProtoScan(bytes, after, field, wireType,
                              IF hit THEN Some(r.value) ELSE found)
               [] tag % 8 = 2 ->
                    ProtoScan(bytes, after + r.value, field, wireType,
                              IF hit THEN Some(Subarray(bytes, after, after + r.value))
                              ELSE found)
               [] OTHER -> found

ProtoOr(found, default) == IF found.set THEN found.value ELSE default

\* message DoPutUpdateResult { int64 record_count = 1; }
DoPutUpdateResult_decode(bytes) ==
    [recordCount |-> ProtoOr(ProtoScan(bytes, 0, 1, 0, None), 0)]

\* message DoPutPreparedStatementResult { optional bytes prepared_statement_handle = 1; }
DoPutPreparedStatementResult_decode(bytes) ==
    [preparedStatementHandle |-> ProtoScan(bytes, 0, 1, 2, None)]

\* message ActionCreatePreparedStatementResult { bytes prepared_statement_handle = 1;
\*   bytes dataset_schema = 2; bytes parameter_schema = 3; }
ActionCreatePreparedStatementResult_decode(bytes) ==
    [preparedStatementHandle |-> ProtoOr(ProtoScan(bytes, 0, 1, 2, None), <<>>),
     datasetSchema |-> ProtoOr(ProtoScan(bytes, 0, 2, 2, None), <<>>),
     parameterSchema |-> ProtoOr(ProtoScan(bytes, 0, 3, 2, None), <<>>)]

\* message ActionBeginTransactionResult { bytes transaction_id = 1; }
ActionBeginTransactionResult_decode(bytes) ==
    [transactionId |-> ProtoOr(ProtoScan(bytes, 0, 1, 2, None), <<>>)]

(***************************************************************************)
(* Requests.  A request buffer packAny(typeUrl, Message.encode(m).finish())*)
(* is kept as the pair [typeUrl, value |-> m] it encodes.                  *)
(***************************************************************************)
TYPE_URL_PREFIX == "type.googleapis.com/arrow.flight.protocol.sql"
ACTION_CREATE_PREPARED_STATEMENT == "CreatePreparedStatement"
ACTION_CLOSE_PREPARED_STATEMENT == "ClosePreparedStatement"
ACTION_BEGIN_TRANSACTION == "BeginTransaction"
ACTION_END_TRANSACTION == "EndTransaction"

packedAny(typeUrl, message) == [typeUrl |-> typeUrl, value |-> message]

createCommandDescriptor(typeName, encodedCommand) ==
    [type |-> "CMD", cmd |-> packedAny(TYPE_URL_PREFIX \o "." \o typeName, encodedCommand)]

\* options?.name
OptionOf(options, name) ==
    IF options.given /\ name \in DOMAIN options THEN options[name] ELSE None

(***************************************************************************)
(* The logical call in progress and the transport it talks to.             *)
(*   call.pc: "idle", "awaitInfo" (awaiting getFlightInfo), "awaitCollect" *)
(*   (awaiting collectResults), "awaitAction" (awaiting the next item of   *)
(*   the doAction stream), "spinning" (inside a scan that never ends),     *)
(*   "done" (the promise is settled).                                      *)
(*   transport.log: what the call asked of the transport, in order.        *)
(***************************************************************************)
Pending == [kind |-> "pending"]
Void == [undefined |-> TRUE]

Start(op, args) ==
    [pc |-> "running", op |-> op, method |-> op, args |-> args, outcome |-> Pending]

\* faulty variant: the error is wrapped in an error of the client
RejectedWrapped(c, error) ==
    [c EXCEPT !.pc = "done",
              !.outcome = [kind |-> "rejected",
                           error |-> [name |-> "FlightSqlError", message |-> error.message,
                                      sqlCode |-> "TRANSPORT_ERROR", code |-> "INTERNAL"]]]

Rejected(c, error) ==
    [c EXCEPT !.pc = "done", !.outcome = [kind |-> "rejected", error |-> error]]

Resolved(c, value) ==
    [c EXCEPT !.pc = "done", !.outcome = [kind |-> "resolved", value |-> value]]

Spinning(c) == [c EXCEPT !.pc = "spinning"]

\* the transport at the start of a call: nothing asked, nothing answered
FreshTransport == TransportIdle

\* the call throws before it reaches the transport
Thrown(c, error) == [call |-> Rejected(c, error), transport |-> FreshTransport]

\* faulty variant: getFlightInfo is called a second time
getFlightInfoCallTwice(c, descriptor, options) ==
    [call |-> [c EXCEPT !.pc = "awaitInfo"],
     transport |-> [FreshTransport EXCEPT
        !.log = <<[fn |-> "getFlightInfo", descriptor |-> descriptor, options |-> options],
                  [fn |-> "getFlightInfo", descriptor |-> descriptor, options |-> options]>>]]

\* return this.getFlightInfo(descriptor, options)
getFlightInfoCall(c, descriptor, options) ==
    [call |-> [c EXCEPT !.pc = "awaitInfo"],
     transport |-> [FreshTransport EXCEPT
        !.log = <<[fn |-> "getFlightInfo", descriptor |-> descriptor, options |-> options]>>]]

\* faulty variant: the stream is ended before the message is written
doPutCallEndFirst(c, descriptor, dataHeader, dataBody, options) ==
    [call |-> [c EXCEPT !.pc = "awaitCollect"],
     transport |-> [FreshTransport EXCEPT
        !.log = <<[fn |-> "doPut", options |-> options],
                  [fn |-> "end"],
                  [fn |-> "write",
                   message |-> [flightDescriptor |->
                                    [type |-> 2, path |-> <<>>, cmd |-> descriptor.cmd],
                                dataHeader |-> dataHeader,
                                appMetadata |-> <<>>,
                                dataBody |-> dataBody]],
                  [fn |-> "collectResults"]>>]]

\* const stream = this.doPut(options); stream.write({...}); stream.end();
\* await stream.collectResults()
doPutCall(c, descriptor, dataHeader, dataBody, options) ==
    [call |-> [c EXCEPT !.pc = "awaitCollect"],
     transport |-> [FreshTransport EXCEPT
        !.log = <<[fn |-> "doPut", options |-> options],
                  [fn |-> "write",
                   message |-> [flightDescriptor |->
                                    [type |-> 2, path |-> <<>>, cmd |-> descriptor.cmd],
                                dataHeader |-> dataHeader,
                                appMetadata |-> <<>>,
                                dataBody |-> dataBody]],
                  [fn |-> "end"],
                  [fn |-> "collectResults"]>>]]

\* for await (const result of this.doAction(action, options)): the call to
\* doAction and the first request for an item
doActionCall(c, action, options) ==
    [call |-> [c EXCEPT !.pc = "awaitAction"],
     transport |-> [FreshTransport EXCEPT
        !.log = <<[fn |-> "doAction", action |-> action, options |-> options],
                  [fn |-> "next"]>>]]

(***************************************************************************)
(* FlightSqlClient (client.ts): each method up to its first await, and     *)
(* what it does with the transport's answer.  A method yields the pair     *)
(* [call, transport] it leaves behind.                                     *)
(***************************************************************************)
ResultError(message) == FlightSqlError(message, "RESULT_ERROR", Some("INTERNAL"))

query(q, options) ==
    LET c == Start("query", [query |-> q, options |-> options])
        v == validateQuery(q)
        command == [query |-> q, transactionId |-> OptionOf(options, "transactionId")]
        descriptor == createCommandDescriptor("CommandStatementQuery", command)
    IN  IF ~v.ok THEN Thrown(c, v.error) ELSE getFlightInfoCall(c, descriptor, options)

executePreparedQuery(handle, options) ==
    LET c == Start("executePreparedQuery", [handle |-> handle, options |-> options])
        v == validateHandle(handle, "prepared statement handle")
        command == [preparedStatementHandle |-> handle]
        descriptor == createCommandDescriptor("CommandPreparedStatementQuery", command)
    IN  IF ~v.ok THEN Thrown(c, v.error) ELSE getFlightInfoCall(c, descriptor, options)

executePreparedUpdate(handle, options) ==
    LET c == Start("executePreparedUpdate", [handle |-> handle, options |-> options])
        v == validateHandle(handle, "prepared statement handle")
        command == [preparedStatementHandle |-> handle]
        descriptor == createCommandDescriptor("CommandPreparedStatementUpdate", command)
    IN  IF ~v.ok THEN Thrown(c, v.error) ELSE doPutCall(c, descriptor, <<>>, <<>>, options)

\* faulty variant: results.at(-1) in place of results.at(0)
executePreparedUpdateResumeLast(c, results) ==
    IF Len(results) = 0
    THEN Rejected(c, ResultError("no result returned from prepared update"))
    ELSE IF Len(results[Len(results)].appMetadata) = 0
    THEN Rejected(c, ResultError("prepared update result missing app metadata"))
    ELSE Resolved(c, [recordCount |->
                        DoPutUpdateResult_decode(results[Len(results)].appMetadata).recordCount])

\* executePreparedUpdate after await stream.collectResults()
executePreparedUpdateResume(c, results) ==
    IF Len(results) = 0
    THEN Rejected(c, ResultError("no result returned from prepared update"))
    ELSE IF Len(results[1].appMetadata) = 0
    THEN Rejected(c, ResultError("prepared update result missing app metadata"))
    ELSE Resolved(c, [recordCount |->
                        DoPutUpdateResult_decode(results[1].appMetadata).recordCount])

executeUpdate(q, options) ==
    LET c == Start("executeUpdate", [query |-> q, options |-> options])
        v == validateQuery(q)
        command == [query |-> q, transactionId |-> OptionOf(options, "transactionId")]
        descriptor == createCommandDescriptor("CommandStatementUpdate", command)
    IN  IF ~v.ok THEN Thrown(c, v.error) ELSE doPutCall(c, descriptor, <<>>, <<>>, options)

\* faulty variant: the metadata of the first item is decoded without the check of
\* its length
executeUpdateResumeNoCheck(c, results) ==
    IF Len(results) = 0
    THEN Rejected(c, ResultError("no result returned from update"))
    ELSE Resolved(c, [recordCount |->
                        DoPutUpdateResult_decode(results[1].appMetadata).recordCount])

\* executeUpdate after await stream.collectResults()
executeUpdateResume(c, results) ==
    IF Len(results) = 0
    THEN Rejected(c, ResultError("no result returned from update"))
    ELSE IF Len(results[1].appMetadata) = 0
    THEN Rejected(c, ResultError("update result missing app metadata"))
    ELSE Resolved(c, [recordCount |->
                        DoPutUpdateResult_decode(results[1].appMetadata).recordCount])

createPreparedStatement(q, options) ==
    LET c == Start("createPreparedStatement", [query |-> q, options |-> options])
        v == validateQuery(q)
        request == [query |-> q, transactionId |-> OptionOf(options, "transactionId")]
        body == packedAny(TYPE_URL_PREFIX \o ".ActionCreatePreparedStatementRequest", request)
        action == [type |-> ACTION_CREATE_PREPARED_STATEMENT, body |-> body]
    IN  IF ~v.ok THEN Thrown(c, v.error) ELSE doActionCall(c, action, options)

\* createPreparedStatement after its for-await loop; resultBody is None
\* when the stream yielded nothing
createPreparedStatementFinish(c, resultBody) ==
    IF ~resultBody.set \/ Len(resultBody.value) = 0
    THEN Rejected(c, ResultError("no result returned from create prepared statement"))
    ELSE LET valueBytes == unpackAny(resultBody.value)
             preparedResult == ActionCreatePreparedStatementResult_decode(valueBytes)
         IN  IF valueBytes = Diverges THEN Spinning(c)
             ELSE Resolved(c, [handle |-> preparedResult.preparedStatementHandle,
                               datasetSchema |-> preparedResult.datasetSchema,
                               parameterSchema |-> preparedResult.parameterSchema])

closePreparedStatement(handle, options) ==
    LET c == Start("closePreparedStatement", [handle |-> handle, options |-> options])
        v == validateHandle(handle, "prepared statement handle")
        request == [preparedStatementHandle |-> handle]
        body == packedAny(TYPE_URL_PREFIX \o ".ActionClosePreparedStatementRequest", request)
        action == [type |-> ACTION_CLOSE_PREPARED_STATEMENT, body |-> body]
    IN  IF ~v.ok THEN Thrown(c, v.error) ELSE doActionCall(c, action, options)

bindParameters(handle, parameters, options) ==
    LET c == Start("bindParameters",
                   [handle |-> handle, parameters |-> parameters, options |-> options])
        v1 == validateHandle(handle, "prepared statement handle")
        v2 == validateParameterData(parameters)
        command == [preparedStatementHandle |-> handle]
        descriptor == createCommandDescriptor("CommandPreparedStatementQuery", command)
    IN  IF ~v1.ok THEN Thrown(c, v1.error)
        ELSE IF ~v2.ok THEN Thrown(c, v2.error)
        ELSE doPutCall(c, descriptor, parameters.schema, parameters.data, options)

\* the objects bindParameters returns: {} and { handle: ... }
EmptyObject == [keys |-> {}]
HandleObject(handle) == [keys |-> {"handle"}, handle |-> handle]

\* the truth value of a Buffer | undefined: undefined is falsy, every
\* Buffer, the empty one too, is truthy
Truthy(x) == x.set

\* faulty variant: the metadata goes to the decoder without unpackAny
bindParametersResumeRaw(c, results) ==
    IF Len(results) = 0 \/ Len(results[1].appMetadata) = 0
    THEN Resolved(c, EmptyObject)
    ELSE LET bindResult == DoPutPreparedStatementResult_decode(results[1].appMetadata)
         IN  Resolved(c, HandleObject(
                IF Truthy(bindResult.preparedStatementHandle)
                THEN Some(bindResult.preparedStatementHandle.value)
                ELSE None))

\* bindParameters after await stream.collectResults()
bindParametersResume(c, results) ==
    IF Len(results) = 0 \/ Len(results[1].appMetadata) = 0
    THEN Resolved(c, EmptyObject)
    ELSE LET anyBytes == unpackAny(results[1].appMetadata)
             bindResult == DoPutPreparedStatementResult_decode(anyBytes)
         IN  IF anyBytes = Diverges THEN Spinning(c)
             ELSE IF Len(anyBytes) = 0 THEN Resolved(c, EmptyObject)
             ELSE Resolved(c, HandleObject(
                    IF Truthy(bindResult.preparedStatementHandle)
                    THEN Some(bindResult.preparedStatementHandle.value)
                    ELSE None))

getCatalogs(options) ==
    getFlightInfoCall(Start("getCatalogs", [options |-> options]),
                      createCommandDescriptor("CommandGetCatalogs", [none |-> TRUE]), options)

getDbSchemas(options) ==
    LET command == [catalog |-> OptionOf(options, "catalog"),
                    dbSchemaFilterPattern |-> OptionOf(options, "dbSchemaFilterPattern")]
    IN  getFlightInfoCall(Start("getDbSchemas", [options |-> options]),
                          createCommandDescriptor("CommandGetDbSchemas", command), options)

getTables(options) ==
    LET command == [catalog |-> OptionOf(options, "catalog"),
                    dbSchemaFilterPattern |-> OptionOf(options, "dbSchemaFilterPattern"),
                    tableNameFilterPattern |-> OptionOf(options, "tableNameFilterPattern"),
                    tableTypes |-> ProtoOr(OptionOf(options, "tableTypes"), <<>>),
                    includeSchema |-> ProtoOr(OptionOf(options, "includeSchema"), FALSE)]
    IN  getFlightInfoCall(Start("getTables", [options |-> options]),
                          createCommandDescriptor("CommandGetTables", command), options)

getTableTypes(options) ==
    getFlightInfoCall(Start("getTableTypes", [options |-> options]),
                      createCommandDescriptor("CommandGetTableTypes", [none |-> TRUE]), options)

\* the command of getPrimaryKeys, getExportedKeys and getImportedKeys
KeysCommand(table, options) ==
    [table |-> table, catalog |-> OptionOf(options, "catalog"),
     dbSchema |-> OptionOf(options, "dbSchema")]

getPrimaryKeys(table, options) ==
    getFlightInfoCall(Start("getPrimaryKeys", [table |-> table, options |-> options]),
                      createCommandDescriptor("CommandGetPrimaryKeys",
                                              KeysCommand(table, options)), options)

getExportedKeys(table, options) ==
    getFlightInfoCall(Start("getExportedKeys", [table |-> table, options |-> options]),
                      createCommandDescriptor("CommandGetExportedKeys",
                                              KeysCommand(table, options)), options)

getImportedKeys(table, options) ==
    getFlightInfoCall(Start("getImportedKeys", [table |-> table, options |-> options]),
                      createCommandDescriptor("CommandGetImportedKeys",
                                              KeysCommand(table, options)), options)

getCrossReference(pkTable, fkTable, options) ==
    LET command == [pkTable |-> pkTable, fkTable |-> fkTable,
                    pkCatalog |-> OptionOf(options, "pkCatalog"),
                    pkDbSchema |-> OptionOf(options, "pkDbSchema"),
                    fkCatalog |-> OptionOf(options, "fkCatalog"),
                    fkDbSchema |-> OptionOf(options, "fkDbSchema")]
    IN  getFlightInfoCall(Start("getCrossReference",
                                [pkTable |-> pkTable, fkTable |-> fkTable,
                                 options |-> options]),
                          createCommandDescriptor("CommandGetCrossReference", command),
                          options)

\* info is None when the argument is undefined
getSqlInfo(info, options) ==
    getFlightInfoCall(Start("getSqlInfo", [info |-> info, options |-> options]),
                      createCommandDescriptor("CommandGetSqlInfo",
                                              [info |-> ProtoOr(info, <<>>)]), options)

getXdbcTypeInfo(options) ==
    getFlightInfoCall(Start("getXdbcTypeInfo", [options |-> options]),
                      createCommandDescriptor("CommandGetXdbcTypeInfo",
                                              [dataType |-> OptionOf(options, "dataType")]),
                      options)

beginTransaction(options) ==
    LET c == Start("beginTransaction", [options |-> options])
        body == packedAny(TYPE_URL_PREFIX \o ".ActionBeginTransactionRequest", [none |-> TRUE])
        action == [type |-> ACTION_BEGIN_TRANSACTION, body |-> body]
    IN  doActionCall(c, action, options)

\* faulty variant: only !resultBody is checked, not its length
beginTransactionFinishNoLength(c, resultBody) ==
    IF ~resultBody.set
    THEN Rejected(c, FlightSqlError("no result returned from begin transaction",
                                    "TRANSACTION_ERROR", Some("INTERNAL")))
    ELSE Resolved(c, [transactionId |->
            ActionBeginTransactionResult_decode(unpackAny(resultBody.value)).transactionId])

\* beginTransaction after its for-await loop
beginTransactionFinish(c, resultBody) ==
    IF ~resultBody.set \/ Len(resultBody.value) = 0
    THEN Rejected(c, FlightSqlError("no result returned from begin transaction",
                                    "TRANSACTION_ERROR", Some("INTERNAL")))
    ELSE LET valueBytes == unpackAny(resultBody.value)
             txnResult == ActionBeginTransactionResult_decode(valueBytes)
         IN  IF valueBytes = Diverges THEN Spinning(c)
             ELSE Resolved(c, [transactionId |-> txnResult.transactionId])

endTransaction(transactionId, action, options) ==
    LET c == Start("endTransaction",
                   [transactionId |-> transactionId, action |-> action, options |-> options])
        v == validateTransactionId(transactionId)
        endAction == IF action = "commit" THEN "END_TRANSACTION_COMMIT"
                     ELSE "END_TRANSACTION_ROLLBACK"
        request == [transactionId |-> transactionId, action |-> endAction]
        body == packedAny(TYPE_URL_PREFIX \o ".ActionEndTransactionRequest", request)
        flightAction == [type |-> ACTION_END_TRANSACTION, body |-> body]
    IN  IF ~v.ok THEN Thrown(c, v.error) ELSE doActionCall(c, flightAction, options)

\* the method the caller invoked, when it is a wrapper of another one
Via(method, r) == [r EXCEPT !.call.method = method]

\* faulty variant: commit asks for a rollback
commitRollsBack(transactionId, options) ==
    Via("commit", endTransaction(transactionId, "rollback", options))

commit(transactionId, options) ==
    Via("commit", endTransaction(transactionId, "commit", options))

rollback(transactionId, options) ==
    Via("rollback", endTransaction(transactionId, "rollback", options))

(***************************************************************************)
(* Result helpers (results.ts).  call.local holds the locals of the helper *)
(* in progress: i, the index of the endpoint whose stream is being read    *)
(* (0 for ticketToTable); allChunks; chunks, the array collectFlightData   *)
(* is filling; out, the records an iterateResults generator has yielded to *)
(* its consumer.  call.pc is "awaitGet" while the helper awaits the next   *)
(* record of a doGet stream.                                               *)
(***************************************************************************)
StartHelper(op, args) ==
    [pc |-> "running", op |-> op, method |-> op, args |-> args, outcome |-> Pending,
     local |-> [i |-> 0, allChunks |-> <<>>, chunks |-> <<>>, out |-> <<>>]]

\* the first endpoint at or after index i that carries a ticket, or
\* Len(endpoints) + 1: for (const endpoint of ...) { if (!endpoint.ticket) continue
NextTicketed(endpoints, i) ==
    LET S == {j \in i..Len(endpoints) : endpoints[j].ticket.set}
    IN  IF S = {} THEN Len(endpoints) + 1 ELSE CHOOSE j \in S : \A k \in S : j <= k

\* faulty variant: the header and the body are kept whatever their length
collectFlightDataAll(chunks, data) ==
    Append(Append(chunks, data.dataHeader), data.dataBody)

\* faulty variant: the body is pushed before the header
collectFlightDataBodyFirst(chunks, data) ==
    LET withBody == IF Len(data.dataBody) > 0 THEN Append(chunks, data.dataBody)
                    ELSE chunks
    IN  IF Len(data.dataHeader) > 0 THEN Append(withBody, data.dataHeader) ELSE withBody

\* collectFlightData: the loop body for one record
collectFlightData(chunks, data) ==
    LET withHeader == IF Len(data.dataHeader) > 0 THEN Append(chunks, data.dataHeader)
                      ELSE chunks
    IN  IF Len(data.dataBody) > 0 THEN Append(withHeader, data.dataBody) ELSE withHeader

RECURSIVE Combined(_)
\* new Uint8Array(totalLength) filled with the chunks, one after the other
Combined(chunks) ==
    IF chunks = <<>> THEN <<>> ELSE Head(chunks) \o Combined(Tail(chunks))

\* the table the Arrow library decodes from the bytes, kept as the bytes
tableFromIPC(combined) == [tableFromIPC |-> combined]

\* client.doGet(ticket) and the first request for a record of its stream
doGetCall(c, t, ticket, i) ==
    [call |-> [c EXCEPT !.pc = "awaitGet", !.local.i = i, !.local.chunks = <<>>],
     transport |-> [t EXCEPT !.log = Append(@, [fn |-> "doGet", ticket |-> ticket])]]

\* flightInfoToTable after its loop over the endpoints
flightInfoToTableFinish(c, t) ==
    [call |-> IF Len(c.local.allChunks) = 0
              THEN Rejected(c, FlightSqlError("no data returned from query", "RESULT_ERROR",
                                              Some("NOT_FOUND")))
              ELSE Resolved(c, tableFromIPC(Combined(c.local.allChunks))),
     transport |-> t]

\* faulty variant: the streams of the next two ticketed endpoints are
\* opened together
flightInfoToTableLoopEager(c, t, i) ==
    LET endpoints == c.args.info.endpoint
        j == NextTicketed(endpoints, i)
        k == NextTicketed(endpoints, j + 1)
        first == doGetCall(c, t, endpoints[j].ticket.value, j)
    IN  IF j > Len(endpoints) THEN flightInfoToTableFinish(c, t)
        ELSE IF k > Len(endpoints) THEN first
        ELSE doGetCall(first.call, first.transport, endpoints[k].ticket.value, k)

\* flightInfoToTable: the loop over the endpoints, from the endpoint of
\* index i up to the next await
flightInfoToTableLoop(c, t, i) ==
    LET endpoints == c.args.info.endpoint
        j == NextTicketed(endpoints, i)
    IN  IF j > Len(endpoints) THEN flightInfoToTableFinish(c, t)
        ELSE doGetCall(c, t, endpoints[j].ticket.value, j)

flightInfoToTable(info) ==
    flightInfoToTableLoop(StartHelper("flightInfoToTable", [info |-> info]), FreshTransport, 1)

\* faulty variant: the loop is left after the first stream
flightInfoToTableResumeStop(c, t) ==
    flightInfoToTableFinish([c EXCEPT !.local.allChunks = @ \o c.local.chunks,
                                      !.local.chunks = <<>>], t)

\* flightInfoToTable when the stream it reads has ended:
\* allChunks.push(...chunks) and the next turn of the loop
flightInfoToTableResume(c, t) ==
    flightInfoToTableLoop([c EXCEPT !.local.allChunks = @ \o c.local.chunks,
                                    !.local.chunks = <<>>],
                          t, c.local.i + 1)

\* queryToTable up to await client.query(query)
queryToTable(q) ==
    LET r == query(q, [given |-> FALSE])
    IN  [call |-> [StartHelper("queryToTable", [query |-> q]) EXCEPT
                        !.pc = r.call.pc, !.outcome = r.call.outcome],
         transport |-> r.transport]

\* queryToTable after the await: return flightInfoToTable(client, info)
queryToTableResume(c, t, info) ==
    flightInfoToTableLoop([c EXCEPT !.args = [query |-> c.args.query, info |-> info]], t, 1)

\* iterateResults: the loop over the endpoints, from the endpoint of index
\* i up to the next await; the generator returns after the last endpoint
iterateResultsLoop(c, t, i) ==
    LET endpoints == c.args.info.endpoint
        j == NextTicketed(endpoints, i)
    IN  IF j > Len(endpoints) THEN [call |-> Resolved(c, Void), transport |-> t]
        ELSE doGetCall(c, t, endpoints[j].ticket.value, j)

\* the generator of iterateResults, pulled by its consumer
iterateResults(info) ==
    iterateResultsLoop(StartHelper("iterateResults", [info |-> info]), FreshTransport, 1)

\* faulty variant: a record without bytes is not handed on
iterateResultsYieldNonEmpty(c, data) ==
    IF Len(data.dataHeader) + Len(data.dataBody) = 0 THEN c
    ELSE [c EXCEPT !.local.out = Append(@, data)]

\* yield* client.doGet(endpoint.ticket): a record goes to the consumer
iterateResultsYield(c, data) == [c EXCEPT !.local.out = Append(@, data)]

ticketToTable(ticket) ==
    doGetCall(StartHelper("ticketToTable", [ticket |-> ticket]), FreshTransport, ticket, 0)

\* faulty variant: an empty array of chunks is handed to the decoder
ticketToTableResumeNoCheck(c, t) ==
    [call |-> Resolved(c, tableFromIPC(Combined(c.local.chunks))), transport |-> t]

\* ticketToTable after await collectFlightData(dataStream)
ticketToTableResume(c, t) ==
    [call |-> IF Len(c.local.chunks) = 0
              THEN Rejected(c, FlightSqlError("no data returned from ticket", "RESULT_ERROR",
                                              Some("NOT_FOUND")))
              ELSE Resolved(c, tableFromIPC(Combined(c.local.chunks))),
     transport |-> t]

(***************************************************************************)
(* Inputs of the calls and answers of the transport.                       *)
(***************************************************************************)
MaxQueryLen == 2
MaxItems == 2

\* space, tab and "S"
QueryChars == {32, 9, 83}
Queries == SeqsUpTo(QueryChars, MaxQueryLen)
Handles == {<<>>, <<104>>, <<1, 2>>}
Tables == {"", "t"}
ParameterSets == {[schema |-> sc, data |-> d] : sc \in {<<>>, <<1>>}, d \in {<<>>, <<4>>}}

CallOptionsSet == {[given |-> FALSE], [given |-> TRUE]}
QueryOptionsSet ==
    CallOptionsSet \cup {[given |-> TRUE, transactionId |-> Some(t)] : t \in Handles}
CatalogOptionsSet == CallOptionsSet \cup {[given |-> TRUE, catalog |-> Some("main")]}

FlightInfos ==
    {[ref |-> "info1", endpoint |-> <<>>],
     [ref |-> "info2", endpoint |-> <<[ticket |-> Some(<<1>>)]>>]}

TransportErrors ==
    {[name |-> "FlightError", message |-> "unavailable", code |-> "UNAVAILABLE"],
     [name |-> "FlightError", message |-> "deadline exceeded", code |-> "DEADLINE_EXCEEDED"]}

\* the type identifier the server packs its answers with: "t"
ServerTypeUrl == <<116>>

\* appMetadata of a doPut answer: empty; DoPutUpdateResult with record
\* count 42, 20 and -1; an envelope without field 2; envelopes around an
\* empty value, around DoPutPreparedStatementResult with handle "h", with
\* an empty handle and without a handle, and around DoPutUpdateResult
ResultMetadata ==
    {<<>>, <<8, 42>>, <<8, 20>>,
     <<8, 255, 255, 255, 255, 255, 255, 255, 255, 255, 1>>,
     <<10, 1, 116>>,
     packAny(ServerTypeUrl, <<>>),
     packAny(ServerTypeUrl, <<10, 1, 104>>),
     packAny(ServerTypeUrl, <<10, 0>>),
     packAny(ServerTypeUrl, <<16, 1>>),
     packAny(ServerTypeUrl, <<8, 42>>)}

PutResults == SeqsUpTo({[appMetadata |-> m] : m \in ResultMetadata}, MaxItems)

\* body of a doAction answer: empty; an envelope without field 2;
\* envelopes around an empty value, around a result with handle "h", with
\* an empty handle, and with handle "h" and both schemas
ActionBodies ==
    {<<>>,
     <<10, 1, 116>>,
     packAny(ServerTypeUrl, <<>>),
     packAny(ServerTypeUrl, <<10, 1, 104>>),
     packAny(ServerTypeUrl, <<10, 0>>),
     packAny(ServerTypeUrl, <<10, 1, 104, 18, 1, 5, 26, 1, 6>>)}

MaxEndpoints == 2

\* an endpoint without a ticket, and endpoints with the tickets [1] and [2]
Endpoints == {[ticket |-> None], [ticket |-> Some(<<1>>)], [ticket |-> Some(<<2>>)]}
ResultInfos == {[ref |-> "info", endpoint |-> e] : e \in SeqsUpTo(Endpoints, MaxEndpoints)}
Tickets == {<<1>>, <<2>>}

\* records of a doGet stream: empty, header only, body only, both
FlightDatas ==
    {[dataHeader |-> h, dataBody |-> b] : h \in {<<>>, <<7>>}, b \in {<<>>, <<8, 9>>}}

(***************************************************************************)
(* Actions: the caller invokes a method when no call is in progress; the   *)
(* transport answers the call in progress; the caller takes the outcome of *)
(* a settled call.  The client keeps nothing from one call to the next.    *)
(***************************************************************************)
InitClient ==
    /\ call = CallIdle
    /\ transport = FreshTransport
    /\ vi = ViIdle
    /\ codec = CodecIdle
    /\ closed = {}
    /\ slots = SlotsIdle

CanCall == call.pc = "idle"

\* the method runs up to its first await, or to the throw that rejects it
Invoke(r) ==
    /\ call' = r.call
    /\ transport' = r.transport
    /\ UNCHANGED <<vi, codec, closed, slots>>

CallQuery ==
    /\ CanCall
    /\ \E q \in Queries, o \in QueryOptionsSet :
        Invoke(query(q, o))

CallExecutePreparedQuery ==
    /\ CanCall
    /\ \E h \in Handles, o \in CallOptionsSet :
        Invoke(executePreparedQuery(h, o))

CallExecutePreparedUpdate ==
    /\ CanCall
    /\ \E h \in Handles, o \in CallOptionsSet :
        Invoke(executePreparedUpdate(h, o))

CallExecuteUpdate ==
    /\ CanCall
    /\ \E q \in Queries, o \in QueryOptionsSet :
        Invoke(executeUpdate(q, o))

CallCreatePreparedStatement ==
    /\ CanCall
    /\ \E q \in Queries, o \in QueryOptionsSet :
        Invoke(createPreparedStatement(q, o))

CallClosePreparedStatement ==
    /\ CanCall
    /\ \E h \in Handles, o \in CallOptionsSet :
        Invoke(closePreparedStatement(h, o))

CallBindParameters ==
    /\ CanCall
    /\ \E h \in Handles, p \in ParameterSets, o \in CallOptionsSet :
        Invoke(bindParameters(h, p, o))

CallGetCatalogs ==
    /\ CanCall
    /\ \E o \in CallOptionsSet :
        Invoke(getCatalogs(o))

CallGetDbSchemas ==
    /\ CanCall
    /\ \E o \in CatalogOptionsSet :
        Invoke(getDbSchemas(o))

CallGetTables ==
    /\ CanCall
    /\ \E o \in CatalogOptionsSet :
        Invoke(getTables(o))

CallGetTableTypes ==
    /\ CanCall
    /\ \E o \in CallOptionsSet :
        Invoke(getTableTypes(o))

CallGetPrimaryKeys ==
    /\ CanCall
    /\ \E t \in Tables, o \in CatalogOptionsSet :
        Invoke(getPrimaryKeys(t, o))

CallGetExportedKeys ==
    /\ CanCall
    /\ \E t \in Tables, o \in CatalogOptionsSet :
        Invoke(getExportedKeys(t, o))

CallGetImportedKeys ==
    /\ CanCall
    /\ \E t \in Tables, o \in CatalogOptionsSet :
        Invoke(getImportedKeys(t, o))

CallGetCrossReference ==
    /\ CanCall
    /\ \E pk \in Tables, fk \in Tables, o \in CallOptionsSet :
        Invoke(getCrossReference(pk, fk, o))

CallGetSqlInfo ==
    /\ CanCall
    /\ \E i \in {None, Some(<<>>), Some(<<1, 2>>)}, o \in CallOptionsSet :
        Invoke(getSqlInfo(i, o))

CallGetXdbcTypeInfo ==
    /\ CanCall
    /\ \E o \in CallOptionsSet \cup {[given |-> TRUE, dataType |-> Some(4)]} :
        Invoke(getXdbcTypeInfo(o))

CallBeginTransaction ==
    /\ CanCall
    /\ \E o \in CallOptionsSet :
        Invoke(beginTransaction(o))

CallEndTransaction ==
    /\ CanCall
    /\ \E t \in Handles, a \in {"commit", "rollback"}, o \in CallOptionsSet :
        Invoke(endTransaction(t, a, o))

CallCommit ==
    /\ CanCall
    /\ \E t \in Handles, o \in CallOptionsSet :
        Invoke(commit(t, o))

CallRollback ==
    /\ CanCall
    /\ \E t \in Handles, o \in CallOptionsSet :
        Invoke(rollback(t, o))

\* the promise of getFlightInfo resolves: the method returns it, and
\* queryToTable goes on with the info
GetFlightInfoResolves ==
    /\ call.pc = "awaitInfo"
    /\ \E info \in FlightInfos :
        LET answered == [transport EXCEPT !.reply = [kind |-> "info", value |-> info]]
        IN  IF call.op = "queryToTable"
            THEN Invoke(queryToTableResume(call, answered, info))
            ELSE /\ transport' = answered
                 /\ call' = Resolved(call, info)
    /\ UNCHANGED <<vi, codec, closed, slots>>

GetFlightInfoRejects ==
    /\ call.pc = "awaitInfo"
    /\ \E e \in TransportErrors :
        /\ transport' = [transport EXCEPT !.reply = [kind |-> "error", error |-> e]]
        /\ call' = Rejected(call, e)
    /\ UNCHANGED <<vi, codec, closed, slots>>

\* the method resumed after await stream.collectResults()
CollectResume(c, results) ==
    CASE c.op = "executeUpdate" -> executeUpdateResume(c, results)
      [] c.op = "executePreparedUpdate" -> executePreparedUpdateResume(c, results)
      [] c.op = "bindParameters" -> bindParametersResume(c, results)

CollectResultsResolves ==
    /\ call.pc = "awaitCollect"
    /\ \E results \in PutResults :
        /\ transport' = [transport EXCEPT !.reply = [kind |-> "results", value |-> results]]
        /\ call' = CollectResume(call, results)
    /\ UNCHANGED <<vi, codec, closed, slots>>

CollectResultsRejects ==
    /\ call.pc = "awaitCollect"
    /\ \E e \in TransportErrors :
        /\ transport' = [transport EXCEPT !.reply = [kind |-> "error", error |-> e]]
        /\ call' = Rejected(call, e)
    /\ UNCHANGED <<vi, codec, closed, slots>>

\* faulty variant: every loop over a doAction stream breaks at its first item
TakesFirstAlways(c) == TRUE

\* the methods whose loop takes the first item and breaks
TakesFirst(c) == c.op \in {"createPreparedStatement", "beginTransaction"}

\* the method after its for-await loop
ActionFinish(c, resultBody) ==
    CASE c.op = "createPreparedStatement" -> createPreparedStatementFinish(c, resultBody)
      [] c.op = "beginTransaction" -> beginTransactionFinish(c, resultBody)
      [] OTHER -> Resolved(c, Void)

\* the doAction stream yields an item: createPreparedStatement and
\* beginTransaction keep its body and break, which closes the iterator;
\* closePreparedStatement and endTransaction ask for the next item
ActionYields ==
    /\ call.pc = "awaitAction"
    /\ Len(transport.yielded) < MaxItems
    /\ \E body \in ActionBodies :
        /\ transport' = [transport EXCEPT
                !.yielded = Append(@, body),
                !.log = Append(@, [fn |-> IF TakesFirst(call) THEN "return" ELSE "next"])]
        /\ call' = IF TakesFirst(call) THEN ActionFinish(call, Some(body)) ELSE call
    /\ UNCHANGED <<vi, codec, closed, slots>>

\* the doAction stream ends
ActionEnds ==
    /\ call.pc = "awaitAction"
    /\ transport' = [transport EXCEPT !.reply = [kind |-> "end"]]
    /\ call' = ActionFinish(call, None)
    /\ UNCHANGED <<vi, codec, closed, slots>>

\* the doAction stream throws
ActionThrows ==
    /\ call.pc = "awaitAction"
    /\ \E e \in TransportErrors :
        /\ transport' = [transport EXCEPT !.reply = [kind |-> "error", error |-> e]]
        /\ call' = Rejected(call, e)
    /\ UNCHANGED <<vi, codec, closed, slots>>

CallFlightInfoToTable ==
    /\ CanCall
    /\ \E info \in ResultInfos :
        Invoke(flightInfoToTable(info))

CallQueryToTable ==
    /\ CanCall
    /\ \E q \in Queries :
        Invoke(queryToTable(q))

CallIterateResults ==
    /\ CanCall
    /\ \E info \in ResultInfos :
        Invoke(iterateResults(info))

CallTicketToTable ==
    /\ CanCall
    /\ \E ticket \in Tickets :
        Invoke(ticketToTable(ticket))

\* the doGet stream yields a record: collectFlightData keeps its bytes,
\* iterateResults hands it to its consumer; both ask for the next record
DoGetYields ==
    /\ call.pc = "awaitGet"
    /\ Len(transport.yielded) < MaxItems
    /\ \E data \in FlightDatas :
        /\ transport' = [transport EXCEPT !.yielded = Append(@, data)]
        /\ call' = IF call.op = "iterateResults" THEN iterateResultsYield(call, data)
                   ELSE [call EXCEPT !.local.chunks = collectFlightData(@, data)]
    /\ UNCHANGED <<vi, codec, closed, slots>>

\* the helper resumed when the stream it reads has ended
DoGetResume(c, t) ==
    CASE c.op \in {"flightInfoToTable", "queryToTable"} -> flightInfoToTableResume(c, t)
      [] c.op = "iterateResults" -> iterateResultsLoop(c, t, c.local.i + 1)
      [] c.op = "ticketToTable" -> ticketToTableResume(c, t)

\* the number of doGet streams of the call that were read to their end
EndedStreams(t) == IF t.reply.kind = "end" THEN t.reply.streams ELSE 0

\* the doGet stream ends
DoGetEnds ==
    /\ call.pc = "awaitGet"
    /\ Invoke(DoGetResume(call, [transport EXCEPT
                !.reply = [kind |-> "end", streams |-> EndedStreams(transport) + 1]]))

\* the doGet stream throws
DoGetThrows ==
    /\ call.pc = "awaitGet"
    /\ \E e \in TransportErrors :
        /\ transport' = [transport EXCEPT !.reply = [kind |-> "error", error |-> e]]
        /\ call' = Rejected(call, e)
    /\ UNCHANGED <<vi, codec, closed, slots>>

\* the caller has seen the promise settle
CallerResumes ==
    /\ call.pc = "done"
    /\ call' = CallIdle
    /\ transport' = FreshTransport
    /\ UNCHANGED <<vi, codec, closed, slots>>

Next ==
    \/ CallQuery
    \/ CallExecutePreparedQuery
    \/ CallExecutePreparedUpdate
    \/ CallExecuteUpdate
    \/ CallCreatePreparedStatement
    \/ CallClosePreparedStatement
    \/ CallBindParameters
    \/ CallGetCatalogs
    \/ CallGetDbSchemas
    \/ CallGetTables
    \/ CallGetTableTypes
    \/ CallGetPrimaryKeys
    \/ CallGetExportedKeys
    \/ CallGetImportedKeys
    \/ CallGetCrossReference
    \/ CallGetSqlInfo
    \/ CallGetXdbcTypeInfo
    \/ CallBeginTransaction
    \/ CallEndTransaction
    \/ CallCommit
    \/ CallRollback
    \/ GetFlightInfoResolves
    \/ GetFlightInfoRejects
    \/ CollectResultsResolves
    \/ CollectResultsRejects
    \/ ActionYields
    \/ ActionEnds
    \/ ActionThrows
    \/ CallFlightInfoToTable
    \/ CallQueryToTable
    \/ CallIterateResults
    \/ CallTicketToTable
    \/ DoGetYields
    \/ DoGetEnds
    \/ DoGetThrows
    \/ CallerResumes

Spec == InitClient /\ [][Next]_vars

(***************************************************************************)
(* Handle lifecycles.  The same client is called again and again with the  *)
(* operations that begin, use and end transactions and prepared            *)
(* statements; closed keeps, for the record only, the handles and          *)
(* transaction ids whose close, commit or rollback has resolved.  No       *)
(* method reads it: FlightSqlClient declares no field (client.ts).         *)
(***************************************************************************)
EndsHandle(c) ==
    /\ c.op \in {"closePreparedStatement", "endTransaction"}
    /\ c.outcome.kind = "resolved"

EndedHandle(c) ==
    IF c.op = "closePreparedStatement" THEN c.args.handle ELSE c.args.transactionId

\* the caller has the outcome and is free to call again
LifecycleResumes ==
    /\ call.pc = "done"
    /\ call' = CallIdle
    /\ transport' = FreshTransport
    /\ closed' = IF EndsHandle(call) THEN closed \cup {EndedHandle(call)} ELSE closed
    /\ UNCHANGED <<vi, codec, slots>>

NextLifecycle ==
    \/ CallBeginTransaction
    \/ CallCommit
    \/ CallRollback
    \/ CallCreatePreparedStatement
    \/ CallClosePreparedStatement
    \/ CallExecutePreparedQuery
    \/ GetFlightInfoResolves
    \/ GetFlightInfoRejects
    \/ ActionYields
    \/ ActionEnds
    \/ ActionThrows
    \/ LifecycleResumes

SpecLifecycle == InitClient /\ [][NextLifecycle]_vars

(***************************************************************************)
(* Concurrent calls.  A caller may start a logical operation while another *)
(* is suspended at its await.  Each invocation of an async method has its  *)
(* own locals (command, descriptor, stream, results), and each             *)
(* getFlightInfo or doPut call of the transport has its own answer: a slot *)
(* holds one invocation and the transport call it made.                    *)
(***************************************************************************)
MaxCalls == 2

ConcurrentQueries == {<<>>, <<83>>, <<85>>}
ConcurrentOptions == {[given |-> FALSE], [given |-> TRUE, transactionId |-> Some(<<104>>)]}
ConcurrentResults ==
    {<<>>, <<[appMetadata |-> <<8, 42>>]>>, <<[appMetadata |-> <<8, 20>>]>>}

SlotIdle == [call |-> CallIdle, transport |-> TransportIdle]

InitConcurrent ==
    /\ slots = [i \in 1..MaxCalls |-> SlotIdle]
    /\ call = CallIdle
    /\ transport = TransportIdle
    /\ vi = ViIdle
    /\ codec = CodecIdle
    /\ closed = {}

\* faulty variant: the descriptor, the message and the answers are kept in
\* one place shared by the invocations
SharedLocals(ss, i, r) ==
    [j \in DOMAIN ss |-> [call |-> IF j = i THEN r.call ELSE ss[j].call,
                          transport |-> r.transport]]

\* the invocation in slot i goes on to r; the others are where they were
OwnLocals(ss, i, r) == [ss EXCEPT ![i] = r]

\* the transport's answer reaches the invocation that made the call
Answered(s, reply, c) ==
    [call |-> c, transport |-> [s.transport EXCEPT !.reply = reply]]

ConcurrentQuery ==
    /\ \E i \in DOMAIN slots, q \in ConcurrentQueries, o \in ConcurrentOptions :
        /\ slots[i].call.pc = "idle"
        /\ slots' = OwnLocals(slots, i, query(q, o))
    /\ UNCHANGED <<vi, codec, call, transport, closed>>

ConcurrentExecuteUpdate ==
    /\ \E i \in DOMAIN slots, q \in ConcurrentQueries, o \in ConcurrentOptions :
        /\ slots[i].call.pc = "idle"
        /\ slots' = OwnLocals(slots, i, executeUpdate(q, o))
    /\ UNCHANGED <<vi, codec, call, transport, closed>>

ConcurrentInfoResolves ==
    /\ \E i \in DOMAIN slots, info \in FlightInfos :
        /\ slots[i].call.pc = "awaitInfo"
        /\ slots' = OwnLocals(slots, i,
                Answered(slots[i], [kind |-> "info", value |-> info],
                         Resolved(slots[i].call, info)))
    /\ UNCHANGED <<vi, codec, call, transport, closed>>

ConcurrentInfoRejects ==
    /\ \E i \in DOMAIN slots, e \in TransportErrors :
        /\ slots[i].call.pc = "awaitInfo"
        /\ slots' = OwnLocals(slots, i,
                Answered(slots[i], [kind |-> "error", error |-> e],
                         Rejected(slots[i].call, e)))
    /\ UNCHANGED <<vi, codec, call, transport, closed>>

ConcurrentCollectResolves ==
    /\ \E i \in DOMAIN slots, results \in ConcurrentResults :
        /\ slots[i].call.pc = "awaitCollect"
        /\ slots' = OwnLocals(slots, i,
                Answered(slots[i], [kind |-> "results", value |-> results],
                         CollectResume(slots[i].call, results)))
    /\ UNCHANGED <<vi, codec, call, transport, closed>>

ConcurrentCollectRejects ==
    /\ \E i \in DOMAIN slots, e \in TransportErrors :
        /\ slots[i].call.pc = "awaitCollect"
        /\ slots' = OwnLocals(slots, i,
                Answered(slots[i], [kind |-> "error", error |-> e],
                         Rejected(slots[i].call, e)))
    /\ UNCHANGED <<vi, codec, call, transport, closed>>

NextConcurrent ==
    \/ ConcurrentQuery
    \/ ConcurrentExecuteUpdate
    \/ ConcurrentInfoResolves
    \/ ConcurrentInfoRejects
    \/ ConcurrentCollectResolves
    \/ ConcurrentCollectRejects

SpecConcurrent == InitConcurrent /\ [][NextConcurrent]_vars

(***************************************************************************)
(* Claims on the codecs.                                                   *)
(***************************************************************************)

\* C1: unpackAny(packAny(typeIdentifier, payload)) returns exactly payload,
\* for every type identifier and every payload, the zero-length one
\* included (no extra field in the envelope).
C1_RoundTrip ==
    (codec.pc = "done" /\ codec.where = "none") =>
        /\ codec.valueBytes = codec.data
        /\ unpackAny(packAny(codec.typeUrl, codec.data)) = codec.data

\* C1 witness: a round trip of a payload whose length needs a two-byte
\* varint, under a type identifier with multi-byte characters, has ended.
C1_Witness ==
    /\ codec.pc = "done"
    /\ codec.where = "none"
    /\ Len(codec.data) > 127
    /\ codec.typeUrl = <<116, 47, 233, 8364>>
    /\ codec.valueBytes = codec.data

\* C2: for every v in [0, 2^32 - 1], readVarInt of the bytes writeVarInt
\* wrote for v yields the value v and consumes varIntSize(v) bytes.
C2_VarIntRoundTrip ==
    vi.pc = "read" =>
        /\ NumOfInt(vi.read.value) = vi.value
        /\ vi.read.bytesRead = varIntSize(vi.value)

\* C3: with one extra field of any tag and wire type before or after
\* field 2, unpackAny returns the same field-2 payload as for the envelope
\* without the extra field.
C3_UnknownFieldTolerance ==
    (codec.pc = "done" /\ codec.where # "none") =>
        codec.valueBytes = unpackAny(packAny(codec.typeUrl, codec.data))

RECURSIVE Leb128(_)
\* the base-128 varint of n, low group first, every byte but the last
\* flagged with 0x80
Leb128(n) ==
    IF n < 128 THEN <<n>> ELSE <<(n % 128) + 128>> \o Leb128(n \div 128)

\* C19: packAny(typeIdentifier, payload) emits exactly the tag byte 0x0A,
\* the varint of the type identifier's UTF-8 byte length, the type
\* identifier bytes, the tag byte 0x12, the varint of the payload length and
\* the payload bytes verbatim, and nothing else; its length is
\* 2 + varIntSize(typeLen) + typeLen + varIntSize(payloadLen) + payloadLen.
C19_PackLayout ==
    (codec.pc \in {"scan", "done"} /\ codec.where = "none") =>
        LET typeBytes == Utf8(codec.typeUrl)
            typeLen == Len(typeBytes)
            payloadLen == Len(codec.data)
        IN  /\ codec.buffer = <<10>> \o Leb128(typeLen) \o typeBytes
                              \o <<18>> \o Leb128(payloadLen) \o codec.data
            /\ Len(codec.buffer) = 2 + varIntSize(NumOfInt(typeLen)) + typeLen
                                     + varIntSize(NumOfInt(payloadLen)) + payloadLen
            /\ packAny(codec.typeUrl, codec.data) = codec.buffer

\* C19 witness: an envelope was packed for a type identifier and a payload
\* that both need a two-byte length.
C19_Witness ==
    /\ codec.pc = "scan"
    /\ codec.offset = 0
    /\ codec.where = "none"
    /\ Len(Utf8(codec.typeUrl)) > 127
    /\ Len(codec.data) > 127
    /\ Len(codec.buffer) = 6 + Len(Utf8(codec.typeUrl)) + Len(codec.data)

(***************************************************************************)
(* Claims on the operations of the client.                                 *)
(***************************************************************************)
\* empty or made of white space only
Blank(q) == \A i \in 1..Len(q) : IsWhiteSpace(q[i])

\* the call was rejected with a FlightSqlError carrying this message
RejectedWith(message) ==
    /\ call.pc = "done"
    /\ call.outcome.kind = "rejected"
    /\ call.outcome.error.name = "FlightSqlError"
    /\ call.outcome.error.message = message

\* the transport primitive fn was invoked n times by the call in progress
Invocations(fn) == Cardinality({i \in 1..Len(transport.log) : transport.log[i].fn = fn})

NoTransportCall ==
    \A fn \in {"getFlightInfo", "doPut", "doAction", "doGet"} : Invocations(fn) = 0

\* C4: query, executeUpdate and createPreparedStatement with an empty or
\* whitespace-only query text reject with "query cannot be empty" without
\* invoking any transport primitive; a query text with a non-whitespace
\* character passes validation and reaches the transport.
C4_QueryValidation ==
    (call.pc # "idle" /\ call.op \in {"query", "executeUpdate", "createPreparedStatement"}) =>
        IF Blank(call.args.query)
        THEN RejectedWith("query cannot be empty") /\ NoTransportCall
        ELSE /\ ~RejectedWith("query cannot be empty")
             /\ ~NoTransportCall

\* C4 witness: executeUpdate of a non-empty query text of white space only
\* has been rejected.
C4_Witness ==
    /\ call.op = "executeUpdate"
    /\ call.args.query = <<32, 9>>
    /\ RejectedWith("query cannot be empty")
    /\ NoTransportCall

\* C5: every operation taking a handle rejects a zero-length handle with a
\* validation error and never calls the transport: "prepared statement
\* handle cannot be empty" for executePreparedQuery, executePreparedUpdate,
\* closePreparedStatement and bindParameters, "transaction ID cannot be
\* empty" for endTransaction, commit and rollback.
C5_HandleValidation ==
    /\ (call.op \in {"executePreparedQuery", "executePreparedUpdate",
                     "closePreparedStatement", "bindParameters"}
        /\ call.args.handle = <<>>) =>
            RejectedWith("prepared statement handle cannot be empty") /\ NoTransportCall
    /\ (call.method \in {"endTransaction", "commit", "rollback"}
        /\ call.args.transactionId = <<>>) =>
            RejectedWith("transaction ID cannot be empty") /\ NoTransportCall

\* C5 witness: bindParameters with an empty handle (and an empty schema)
\* has been rejected for its handle.
C5_Witness ==
    /\ call.op = "bindParameters"
    /\ call.args.handle = <<>>
    /\ call.args.parameters.schema = <<>>
    /\ RejectedWith("prepared statement handle cannot be empty")
    /\ NoTransportCall

\* collectResults resolved with these results for the call that is settled
Collected == call.pc = "done" /\ transport.reply.kind = "results"

\* C6: after a write-stream round trip without transport error,
\* executeUpdate rejects with "no result returned from update" on zero
\* response items and with "update result missing app metadata" when the
\* first item has zero-length metadata; executePreparedUpdate likewise with
\* "no result returned from prepared update" and "prepared update result
\* missing app metadata".
C6_MissingResponse ==
    Collected =>
        LET results == transport.reply.value
            none == Len(results) = 0
            blank == Len(results) > 0 /\ Len(results[1].appMetadata) = 0
        IN  /\ (call.op = "executeUpdate" /\ none) =>
                    RejectedWith("no result returned from update")
            /\ (call.op = "executeUpdate" /\ blank) =>
                    RejectedWith("update result missing app metadata")
            /\ (call.op = "executePreparedUpdate" /\ none) =>
                    RejectedWith("no result returned from prepared update")
            /\ (call.op = "executePreparedUpdate" /\ blank) =>
                    RejectedWith("prepared update result missing app metadata")

\* C6 witness: executeUpdate got a first item with empty metadata, followed
\* by an item with metadata, and has been rejected for the first.
C6_Witness ==
    /\ Collected
    /\ call.op = "executeUpdate"
    /\ transport.reply.value = <<[appMetadata |-> <<>>], [appMetadata |-> <<8, 42>>]>>
    /\ RejectedWith("update result missing app metadata")

\* C7: bindParameters with valid arguments never raises because of an
\* absent or empty result: it resolves to {} on zero response items, on a
\* first item with zero-length metadata and on an envelope whose field-2
\* payload is absent or zero-length, and it returns handle undefined when
\* the decoded handle is empty.
C7_BindLeniency ==
    (Collected /\ call.op = "bindParameters") =>
        LET results == transport.reply.value
            payload == unpackAny(results[1].appMetadata)
            decoded == DoPutPreparedStatementResult_decode(payload).preparedStatementHandle
        IN  /\ call.outcome.kind = "resolved"
            /\ IF Len(results) = 0 \/ Len(results[1].appMetadata) = 0 \/ Len(payload) = 0
               THEN call.outcome.value = EmptyObject
               ELSE (~decoded.set \/ Len(decoded.value) = 0) =>
                        call.outcome.value = HandleObject(None)

\* C8: when the first response item has non-empty metadata, executeUpdate
\* and executePreparedUpdate resolve to { recordCount } with the count the
\* domain codec decodes from that first item's metadata, whatever the later
\* items are.
C8_RecordCount ==
    (Collected /\ call.op \in {"executeUpdate", "executePreparedUpdate"}) =>
        LET results == transport.reply.value
        IN  (Len(results) > 0 /\ Len(results[1].appMetadata) > 0) =>
                /\ call.outcome.kind = "resolved"
                /\ call.outcome.value =
                    [recordCount |->
                        DoPutUpdateResult_decode(results[1].appMetadata).recordCount]

\* C8 witness: executePreparedUpdate got an item that decodes to 42
\* followed by one that decodes to 20, and resolved to { recordCount: 42 }.
C8_Witness ==
    /\ Collected
    /\ call.op = "executePreparedUpdate"
    /\ transport.reply.value = <<[appMetadata |-> <<8, 42>>], [appMetadata |-> <<8, 20>>]>>
    /\ call.outcome.kind = "resolved"
    /\ call.outcome.value = [recordCount |-> 42]

\* the doAction stream of the settled call ended without an item, or its
\* first item had a zero-length body
NoActionResult ==
    /\ call.pc = "done"
    /\ Invocations("doAction") = 1
    /\ \/ (transport.reply.kind = "end" /\ transport.yielded = <<>>)
       \/ (Len(transport.yielded) > 0 /\ Len(transport.yielded[1]) = 0)

\* C9: createPreparedStatement rejects with "no result returned from create
\* prepared statement" and beginTransaction with "no result returned from
\* begin transaction", both when the response stream yields no item and
\* when the first item has a zero-length body.
C9_NoActionResult ==
    /\ (call.op = "createPreparedStatement" /\ NoActionResult) =>
            RejectedWith("no result returned from create prepared statement")
    /\ (call.op = "beginTransaction" /\ NoActionResult) =>
            RejectedWith("no result returned from begin transaction")

\* C9 witness: beginTransaction got a first item with a zero-length body
\* and has been rejected.
C9_Witness ==
    /\ call.op = "beginTransaction"
    /\ transport.yielded = <<<<>>>>
    /\ RejectedWith("no result returned from begin transaction")

InfoOps ==
    {"query", "executePreparedQuery", "getCatalogs", "getDbSchemas", "getTables",
     "getTableTypes", "getPrimaryKeys", "getExportedKeys", "getImportedKeys",
     "getCrossReference", "getSqlInfo", "getXdbcTypeInfo"}

\* C10: query, executePreparedQuery and every metadata lookup issue exactly
\* one getFlightInfo call per logical call that passes validation, resolve
\* with the very object the transport returned, and call neither doPut nor
\* doAction nor doGet.
C10_SingleGetInfo ==
    (call.op \in InfoOps) =>
        /\ \A i \in 1..Len(transport.log) : transport.log[i].fn = "getFlightInfo"
        /\ Invocations("getFlightInfo") <= 1
        /\ (call.pc = "awaitInfo" \/ transport.reply.kind # "none") =>
                Invocations("getFlightInfo") = 1
        /\ (call.outcome.kind = "resolved") =>
                /\ Invocations("getFlightInfo") = 1
                /\ transport.reply.kind = "info"
                /\ call.outcome.value = transport.reply.value

\* C10 witness: getCrossReference resolved with the object the transport
\* returned for its one getFlightInfo call.
C10_Witness ==
    /\ call.op = "getCrossReference"
    /\ call.outcome.kind = "resolved"
    /\ transport.reply.kind = "info"
    /\ call.outcome.value = transport.reply.value
    /\ call.outcome.value.ref = "info2"
    /\ Invocations("getFlightInfo") = 1

\* the write-stream operations and the command each one sends
WriteOps == {"executeUpdate", "executePreparedUpdate", "bindParameters"}

CommandOf(op) ==
    CASE op = "executeUpdate" -> "CommandStatementUpdate"
      [] op = "executePreparedUpdate" -> "CommandPreparedStatementUpdate"
      [] op = "bindParameters" -> "CommandPreparedStatementQuery"

\* the names of what the call asked of the transport, in order
LogFns == [i \in 1..Len(transport.log) |-> transport.log[i].fn]

\* C11: executeUpdate, executePreparedUpdate and bindParameters open one
\* write stream, write exactly one message carrying the command descriptor,
\* end the stream, then await collectResults, in that order; the call never
\* resolves before collectResults has resolved.
C11_WriteStreamOrder ==
    (call.op \in WriteOps /\ transport.log # <<>>) =>
        /\ LogFns = <<"doPut", "write", "end", "collectResults">>
        /\ transport.log[2].message.flightDescriptor.type = 2
        /\ transport.log[2].message.flightDescriptor.cmd.typeUrl =
                TYPE_URL_PREFIX \o "." \o CommandOf(call.op)
        /\ (call.pc = "awaitCollect") => (call.outcome.kind = "pending")
        /\ (call.outcome.kind = "resolved") => (transport.reply.kind = "results")

\* C11 witness: bindParameters resolved to a handle after the four steps
\* on its write stream and the answer of collectResults.
C11_Witness ==
    /\ call.op = "bindParameters"
    /\ call.outcome.kind = "resolved"
    /\ call.outcome.value = HandleObject(Some(<<104>>))
    /\ LogFns = <<"doPut", "write", "end", "collectResults">>
    /\ transport.log[2].message.dataHeader = <<1>>
    /\ transport.reply.kind = "results"

\* C16: commit(id, options) behaves exactly as endTransaction(id, "commit",
\* options) and rollback(id, options) exactly as endTransaction(id,
\* "rollback", options): the same validation, one doAction call of type
\* EndTransaction whose request carries the commit respectively rollback
\* action, and the options passed through unchanged.
C16_CommitRollbackAsEnd ==
    (call.method \in {"commit", "rollback"}) =>
        LET id == call.args.transactionId
            direct == endTransaction(id, call.method, call.args.options)
        IN  /\ call.op = "endTransaction"
            /\ call.args.action = call.method
            /\ (id = <<>>) =>
                    /\ RejectedWith("transaction ID cannot be empty")
                    /\ NoTransportCall
                    /\ [call EXCEPT !.method = "endTransaction"] = direct.call
            /\ (id # <<>>) =>
                    /\ Invocations("doAction") = 1
                    /\ transport.log[1] =
                        [fn |-> "doAction",
                         action |-> [type |-> "EndTransaction",
                                     body |-> [typeUrl |-> TYPE_URL_PREFIX \o
                                                    ".ActionEndTransactionRequest",
                                               value |-> [transactionId |-> id,
                                                          action |->
                                                            IF call.method = "commit"
                                                            THEN "END_TRANSACTION_COMMIT"
                                                            ELSE "END_TRANSACTION_ROLLBACK"]]],
                         options |-> call.args.options]
                    /\ SubSeq(transport.log, 1, 2) = direct.transport.log
                    /\ (Len(transport.log) = 2 /\ transport.reply.kind = "none") =>
                            /\ transport = direct.transport
                            /\ [call EXCEPT !.method = "endTransaction"] = direct.call

\* C16 witness: rollback with options has resolved after one doAction call
\* that carried the rollback action.
C16_Witness ==
    /\ call.method = "rollback"
    /\ call.outcome.kind = "resolved"
    /\ call.args.options = [given |-> TRUE]
    /\ Invocations("doAction") = 1
    /\ transport.log[1].action.body.value.action = "END_TRANSACTION_ROLLBACK"
    /\ transport.log[1].options = [given |-> TRUE]

\* the handle a closePreparedStatement or endTransaction call was given
DrainedHandle ==
    IF call.op = "closePreparedStatement" THEN call.args.handle ELSE call.args.transactionId

\* C17: closePreparedStatement and endTransaction, given a non-empty
\* handle, invoke doAction exactly once, consume the response stream to its
\* end, and then resolve with no value, however many items the stream
\* yields.
C17_DrainThenResolve ==
    (call.op \in {"closePreparedStatement", "endTransaction"} /\ DrainedHandle # <<>>) =>
        /\ Invocations("doAction") = 1
        /\ Invocations("next") = Len(transport.yielded) + 1
        /\ (call.pc = "awaitAction") =>
                (call.outcome.kind = "pending" /\ transport.reply.kind = "none")
        /\ (transport.reply.kind = "end") =>
                (call.outcome.kind = "resolved" /\ call.outcome.value = Void)
        /\ (call.outcome.kind = "resolved") => (transport.reply.kind = "end")
        /\ (call.outcome.kind = "rejected") => (transport.reply.kind = "error")

\* C17 witness: closePreparedStatement resolved with no value after the
\* stream yielded two items and ended.
C17_Witness ==
    /\ call.op = "closePreparedStatement"
    /\ Len(transport.yielded) = 2
    /\ transport.reply.kind = "end"
    /\ call.outcome.kind = "resolved"
    /\ call.outcome.value = Void

(***************************************************************************)
(* Claims on the result helpers.                                           *)
(***************************************************************************)
\* the helper is settled and no doGet stream threw
HelperEnded(op) == call.op = op /\ call.pc = "done" /\ transport.reply.kind # "error"

\* no record received so far carries a byte
NoBytes ==
    \A i \in 1..Len(transport.yielded) :
        Len(transport.yielded[i].dataHeader) + Len(transport.yielded[i].dataBody) = 0

\* the empty-result error with this message
EmptyResultError(message) ==
    /\ RejectedWith(message)
    /\ call.outcome.error.sqlCode = "RESULT_ERROR"

\* C12: flightInfoToTable rejects with the result error "no data returned
\* from query" whenever zero bytes were collected across all endpoints (no
\* endpoint, ticketless endpoints only, streams without a record or with
\* records of zero-length header and body only), and does not raise this
\* error when at least one byte was collected.
C12_EmptyResult ==
    HelperEnded("flightInfoToTable") =>
        IF NoBytes
        THEN EmptyResultError("no data returned from query")
        ELSE /\ ~RejectedWith("no data returned from query")
             /\ call.outcome.kind = "resolved"

\* C12 witness: flightInfoToTable over a ticketless endpoint and a ticketed
\* one whose stream gave two records without bytes has been rejected.
C12_Witness ==
    /\ HelperEnded("flightInfoToTable")
    /\ call.args.info.endpoint = <<[ticket |-> None], [ticket |-> Some(<<1>>)]>>
    /\ Len(transport.yielded) = 2
    /\ NoBytes
    /\ EmptyResultError("no data returned from query")

\* the endpoints the loop of the helper has reached so far
Reached ==
    LET endpoints == call.args.info.endpoint
    IN  SubSeq(endpoints, 1, IF call.pc = "done" /\ transport.reply.kind # "error"
                             THEN Len(endpoints) ELSE call.local.i)

\* the tickets of the endpoints that carry one, in endpoint order
TicketsOf(endpoints) ==
    LET ticketed == SelectSeq(endpoints, LAMBDA e : e.ticket.set)
    IN  [i \in 1..Len(ticketed) |-> ticketed[i].ticket.value]

\* the tickets doGet was called with, in call order
DoGetTickets ==
    LET gets == SelectSeq(transport.log, LAMBDA l : l.fn = "doGet")
    IN  [i \in 1..Len(gets) |-> gets[i].ticket]

\* C13: flightInfoToTable calls doGet exactly once for each endpoint that
\* carries a ticket, with that endpoint's ticket and in endpoint order, and
\* never for an endpoint without a ticket, which is skipped without error.
C13_DoGetPerTicket ==
    (call.op = "flightInfoToTable") =>
        /\ DoGetTickets = TicketsOf(Reached)
        /\ Len(transport.log) = Len(DoGetTickets)
        /\ (call.outcome.kind = "rejected") =>
                \/ transport.reply.kind = "error"
                \/ NoBytes /\ RejectedWith("no data returned from query")

\* C13 witness: flightInfoToTable over an endpoint with ticket [2] and one
\* with ticket [1] has read both streams, in that order, and resolved.
C13_Witness ==
    /\ HelperEnded("flightInfoToTable")
    /\ call.args.info.endpoint = <<[ticket |-> Some(<<2>>)], [ticket |-> Some(<<1>>)]>>
    /\ DoGetTickets = <<<<2>>, <<1>>>>
    /\ call.outcome.kind = "resolved"

\* C14: iterateResults yields every record of every ticketed endpoint
\* exactly once, in endpoint order and within an endpoint in arrival order,
\* skips ticketless endpoints, and for an info with zero endpoints yields
\* nothing and never calls doGet.
C14_IterateOrder ==
    (call.op = "iterateResults") =>
        /\ call.local.out = transport.yielded
        /\ DoGetTickets = TicketsOf(Reached)
        /\ Len(transport.log) = Len(DoGetTickets)
        /\ (call.outcome.kind = "rejected") => (transport.reply.kind = "error")
        /\ (Len(call.args.info.endpoint) = 0) =>
                /\ call.outcome.kind = "resolved"
                /\ call.local.out = <<>>
                /\ transport.log = <<>>

\* C14 witness: iterateResults over a ticketless endpoint and one with
\* ticket [1] has yielded a record without bytes and then one with bytes
\* and has returned.
C14_Witness ==
    /\ HelperEnded("iterateResults")
    /\ call.args.info.endpoint = <<[ticket |-> None], [ticket |-> Some(<<1>>)]>>
    /\ call.local.out = <<[dataHeader |-> <<>>, dataBody |-> <<>>],
                          [dataHeader |-> <<7>>, dataBody |-> <<8, 9>>]>>
    /\ DoGetTickets = <<<<1>>>>
    /\ call.outcome.kind = "resolved"

\* C15 as stated: ticketToTable over a ticket whose stream yields zero
\* bytes raises the same empty-result error as flightInfoToTable, a result
\* error with the message "no data returned from query".
C15_SameEmptyResultError ==
    (HelperEnded("ticketToTable") /\ NoBytes) =>
        EmptyResultError("no data returned from query")

\* C15 amended: ticketToTable over a ticket whose stream yields zero bytes
\* raises a result error of the same code as flightInfoToTable's, with the
\* message "no data returned from ticket"; with at least one byte it
\* resolves.
C15_TicketEmptyResult ==
    HelperEnded("ticketToTable") =>
        /\ Len(DoGetTickets) = 1
        /\ DoGetTickets[1] = call.args.ticket
        /\ IF NoBytes
           THEN /\ EmptyResultError("no data returned from ticket")
                /\ call.outcome.error.code = "NOT_FOUND"
           ELSE call.outcome.kind = "resolved"

\* C15 witness: ticketToTable got one record without bytes and has been
\* rejected.
C15_Witness ==
    /\ HelperEnded("ticketToTable")
    /\ Len(transport.yielded) = 1
    /\ NoBytes
    /\ EmptyResultError("no data returned from ticket")

(***************************************************************************)
(* Claims on errors.                                                       *)
(***************************************************************************)
\* C18: an error raised by a transport primitive (getFlightInfo,
\* collectResults of doPut, doAction, doGet) makes the operation reject
\* with that same error unmodified; the operation ends there and has
\* invoked the primitive at most once (doGet: once for each ticket reached,
\* the failing one included), so nothing is retried.
C18_TransportErrorPassthrough ==
    /\ (transport.reply.kind = "error") =>
            /\ call.pc = "done"
            /\ call.outcome = [kind |-> "rejected", error |-> transport.reply.error]
            /\ transport.reply.error \in TransportErrors
    /\ (call.outcome.kind = "rejected" /\ call.outcome.error \in TransportErrors) =>
            transport.reply.kind = "error"
    /\ \A fn \in {"getFlightInfo", "doPut", "collectResults", "doAction"} :
            Invocations(fn) <= 1
    /\ IF call.op \in {"flightInfoToTable", "iterateResults"}
       THEN DoGetTickets = TicketsOf(Reached)
       ELSE IF call.op = "queryToTable"
       THEN DoGetTickets = IF "info" \in DOMAIN call.args THEN TicketsOf(Reached) ELSE <<>>
       ELSE IF call.op = "ticketToTable"
       THEN DoGetTickets = <<call.args.ticket>>
       ELSE Invocations("doGet") = 0

\* C18 witness: flightInfoToTable read the stream of ticket [1], then the
\* stream of ticket [2] threw "unavailable", and the call was rejected with
\* that error.
C18_Witness ==
    /\ call.op = "flightInfoToTable"
    /\ DoGetTickets = <<<<1>>, <<2>>>>
    /\ transport.reply.kind = "error"
    /\ transport.reply.error.message = "unavailable"
    /\ call.outcome = [kind |-> "rejected", error |-> transport.reply.error]

\* the call was rejected by a validation: before any call of the transport
\* (the helpers reject without a call only for want of data)
ValidationFailed ==
    /\ call.pc = "done"
    /\ call.outcome.kind = "rejected"
    /\ transport.log = <<>>
    /\ call.op \notin {"flightInfoToTable", "iterateResults"}

\* the class and the codes of an error
KindOf(e) == [name |-> e.name, sqlCode |-> e.sqlCode, code |-> e.code]

\* the error of each validation, on an argument it refuses
ValidationErrors ==
    {validateQuery(<<>>).error, validateQuery(<<32>>).error,
     validateHandle(<<>>, "prepared statement handle").error,
     validateTransactionId(<<>>).error,
     validateParameterData([schema |-> <<>>, data |-> <<4>>]).error,
     validateParameterData([schema |-> <<1>>, data |-> <<>>]).error}

\* C20 as stated: every validation failure (empty or whitespace query
\* text, empty prepared-statement handle, empty transaction id, empty
\* parameter schema, empty parameter data) raises an error of one and the
\* same kind, with the same error class and the same error code, whatever
\* the operation.
C20_OneValidationKind ==
    ValidationFailed =>
        \A e \in ValidationErrors : KindOf(e) = KindOf(call.outcome.error)

\* what the error of a refused argument carries
Refusal(message, sqlCode, code) ==
    /\ call.outcome.error.name = "FlightSqlError"
    /\ call.outcome.error.message = message
    /\ call.outcome.error.sqlCode = sqlCode
    /\ call.outcome.error.code = code

\* C20 amended: every validation failure raises an error of the same class,
\* FlightSqlError, whose codes depend on the refused argument only, not on
\* the operation: INVALID_QUERY for a query text, INVALID_HANDLE for a
\* prepared-statement handle, INVALID_PARAMETER for a parameter schema or
\* data, each with the code INVALID_ARGUMENT, and TRANSACTION_ERROR with
\* the code FAILED_PRECONDITION for a transaction id.
C20_KindByArgument ==
    ValidationFailed =>
        LET has(name) == name \in DOMAIN call.args
        IN  /\ KindOf(call.outcome.error) \in {KindOf(e) : e \in ValidationErrors}
            /\ has("query") =>
                    /\ Blank(call.args.query)
                    /\ Refusal("query cannot be empty", "INVALID_QUERY", "INVALID_ARGUMENT")
            /\ (has("handle") /\ call.args.handle = <<>>) =>
                    Refusal("prepared statement handle cannot be empty",
                            "INVALID_HANDLE", "INVALID_ARGUMENT")
            /\ has("transactionId") =>
                    /\ call.args.transactionId = <<>>
                    /\ Refusal("transaction ID cannot be empty",
                               "TRANSACTION_ERROR", "FAILED_PRECONDITION")
            /\ (has("handle") /\ call.args.handle # <<>>) =>
                    /\ has("parameters")
                    /\ IF call.args.parameters.schema = <<>>
                       THEN Refusal("parameter schema is required",
                                    "INVALID_PARAMETER", "INVALID_ARGUMENT")
                       ELSE /\ call.args.parameters.data = <<>>
                            /\ Refusal("parameter data is required",
                                       "INVALID_PARAMETER", "INVALID_ARGUMENT")

\* C20 witness: rollback of an empty transaction id has been rejected with
\* TRANSACTION_ERROR and FAILED_PRECONDITION.
C20_Witness ==
    /\ ValidationFailed
    /\ call.method = "rollback"
    /\ call.args.transactionId = <<>>
    /\ Refusal("transaction ID cannot be empty", "TRANSACTION_ERROR", "FAILED_PRECONDITION")

\* ---------------------------------------------------------------------
\* Claims about the error taxonomy of missing responses
\* ---------------------------------------------------------------------

\* the call ended on the missing or empty response its operation rejects
MissingResponse ==
    \/ /\ call.op \in {"executeUpdate", "executePreparedUpdate"}
       /\ Collected
       /\ \/ Len(transport.reply.value) = 0
          \/ Len(transport.reply.value[1].appMetadata) = 0
    \/ /\ call.op \in {"createPreparedStatement", "beginTransaction"}
       /\ NoActionResult
    \/ /\ (HelperEnded("flightInfoToTable") \/ HelperEnded("ticketToTable"))
       /\ NoBytes

\* the fixed messages of each operation's missing-response failures
MissingResponseMessages ==
    [executeUpdate |->
        {"no result returned from update", "update result missing app metadata"},
     executePreparedUpdate |->
        {"no result returned from prepared update",
         "prepared update result missing app metadata"},
     createPreparedStatement |-> {"no result returned from create prepared statement"},
     beginTransaction |-> {"no result returned from begin transaction"},
     flightInfoToTable |-> {"no data returned from query"},
     ticketToTable |-> {"no data returned from ticket"}]

\* C21: every failure caused by a missing or empty response (in
\* executeUpdate, executePreparedUpdate, createPreparedStatement,
\* beginTransaction, flightInfoToTable and ticketToTable) is a
\* FlightSqlError whose sqlCode is RESULT_ERROR and whose message is one of
\* the fixed messages of that operation.
C21_MissingResponseIsResultError ==
    MissingResponse =>
        /\ call.outcome.kind = "rejected"
        /\ call.outcome.error.name = "FlightSqlError"
        /\ call.outcome.error.sqlCode = "RESULT_ERROR"
        /\ call.outcome.error.message \in MissingResponseMessages[call.op]

\* ---------------------------------------------------------------------
\* Claims about the action-style response stream
\* ---------------------------------------------------------------------

\* C22: createPreparedStatement and beginTransaction take their result from
\* the first item of the response stream only, and the remaining items are
\* drained (the stream is consumed until it ends) and ignored before the
\* call resolves: a resolved call has seen the end of its stream and asked
\* for one item more than it received.
C22_DrainBeforeResolve ==
    (/\ call.op \in {"createPreparedStatement", "beginTransaction"}
     /\ call.pc = "done"
     /\ call.outcome.kind = "resolved") =>
        /\ transport.reply.kind = "end"
        /\ Invocations("next") = Len(transport.yielded) + 1
        /\ Invocations("return") = 0

\* ---------------------------------------------------------------------
\* Claims about the decoding of responses
\* ---------------------------------------------------------------------

\* the metadata of the first item collected from a doPut stream, when the
\* call got one that is not empty
FirstMetadata == transport.reply.value[1].appMetadata

HasFirstMetadata ==
    /\ Collected
    /\ Len(transport.reply.value) > 0
    /\ Len(FirstMetadata) > 0

\* the body of the first item of a doAction stream, when not empty
HasFirstBody ==
    /\ call.pc = "done"
    /\ transport.reply.kind # "error"
    /\ Len(transport.yielded) > 0
    /\ Len(transport.yielded[1]) > 0

\* what bindParameters, createPreparedStatement and beginTransaction make
\* of the payload valueBytes handed to their decoder
BindValueOf(valueBytes) ==
    IF Len(valueBytes) = 0 THEN EmptyObject
    ELSE HandleObject(DoPutPreparedStatementResult_decode(valueBytes).preparedStatementHandle)

CreateValueOf(valueBytes) ==
    LET r == ActionCreatePreparedStatementResult_decode(valueBytes)
    IN  [handle |-> r.preparedStatementHandle,
         datasetSchema |-> r.datasetSchema,
         parameterSchema |-> r.parameterSchema]

BeginValueOf(valueBytes) ==
    [transactionId |-> ActionBeginTransactionResult_decode(valueBytes).transactionId]

\* the three envelope-carrying operations decode unpackAny of the first
\* item
EnvelopeOpsUnwrap ==
    /\ (call.op = "bindParameters" /\ HasFirstMetadata) =>
            (/\ call.outcome.kind = "resolved"
             /\ call.outcome.value = BindValueOf(unpackAny(FirstMetadata)))
    /\ (call.op = "createPreparedStatement" /\ HasFirstBody) =>
            (/\ call.outcome.kind = "resolved"
             /\ call.outcome.value = CreateValueOf(unpackAny(transport.yielded[1])))
    /\ (call.op = "beginTransaction" /\ HasFirstBody) =>
            (/\ call.outcome.kind = "resolved"
             /\ call.outcome.value = BeginValueOf(unpackAny(transport.yielded[1])))

\* C23: for executeUpdate, executePreparedUpdate, bindParameters,
\* createPreparedStatement and beginTransaction, the metadata of the first
\* response item is first unwrapped by unpackAny, and only the resulting
\* field-2 payload is handed to the domain decoder.
C23_UnwrapThenDecode ==
    /\ EnvelopeOpsUnwrap
    /\ (call.op \in {"executeUpdate", "executePreparedUpdate"} /\ HasFirstMetadata) =>
            (/\ call.outcome.kind = "resolved"
             /\ call.outcome.value =
                    [recordCount |->
                        DoPutUpdateResult_decode(unpackAny(FirstMetadata)).recordCount])

\* C23, amended: bindParameters, createPreparedStatement and
\* beginTransaction unwrap the first item with unpackAny and decode its
\* field-2 payload; executeUpdate and executePreparedUpdate hand the first
\* item's metadata to the DoPutUpdateResult decoder as it is, without
\* unpackAny.
C23_UnwrapOnlyEnvelopes ==
    /\ EnvelopeOpsUnwrap
    /\ (call.op \in {"executeUpdate", "executePreparedUpdate"} /\ HasFirstMetadata) =>
            (/\ call.outcome.kind = "resolved"
             /\ call.outcome.value =
                    [recordCount |-> DoPutUpdateResult_decode(FirstMetadata).recordCount])

\* C23 witness: executeUpdate whose first item carries the bare
\* DoPutUpdateResult {record_count: 42} resolved with recordCount 42, which
\* the unwrapped payload (empty) would not give.
C23_Witness ==
    /\ call.op = "executeUpdate"
    /\ HasFirstMetadata
    /\ FirstMetadata = <<8, 42>>
    /\ unpackAny(FirstMetadata) = <<>>
    /\ call.outcome.kind = "resolved"
    /\ call.outcome.value = [recordCount |-> 42]

\* ---------------------------------------------------------------------
\* Claims about transaction ids and handles
\* ---------------------------------------------------------------------

\* the call in progress was given options with a zero-length transactionId
EmptyTransactionIdOption ==
    /\ call.op \in {"query", "executeUpdate", "createPreparedStatement"}
    /\ OptionOf(call.args.options, "transactionId") = Some(<<>>)

\* C24: query, executeUpdate and createPreparedStatement called with
\* options.transactionId present and zero-length raise a validation error
\* without touching the transport, as endTransaction does for an empty
\* transaction id.
C24_EmptyTransactionIdOptionRefused ==
    EmptyTransactionIdOption =>
        /\ call.pc = "done"
        /\ call.outcome.kind = "rejected"
        /\ call.outcome.error.name = "FlightSqlError"
        /\ NoTransportCall

\* C25: beginTransaction resolves only with a non-empty transactionId, and
\* createPreparedStatement only with a non-empty handle, for every
\* non-empty response body, the envelope whose field-2 payload is absent or
\* zero-length included.
C25_NonEmptyIdentifiers ==
    (HasFirstBody /\ call.outcome.kind = "resolved") =>
        /\ (call.op = "beginTransaction") => Len(call.outcome.value.transactionId) > 0
        /\ (call.op = "createPreparedStatement") => Len(call.outcome.value.handle) > 0

\* the operations of the lifecycle exercise that are given a handle or a
\* transaction id, and the one given to the call in progress
HandleOps == {"closePreparedStatement", "endTransaction", "executePreparedQuery"}

GivenHandle ==
    IF call.op = "endTransaction" THEN call.args.transactionId ELSE call.args.handle

\* C26: the client keeps no local record of handle lifecycles: after any
\* sequence of begin, commit, rollback, create and close calls, a later
\* operation given a non-empty handle (one already closed, committed or
\* rolled back, or one never issued) is never rejected locally: it reaches
\* the transport, with the handle in its request, and is rejected only
\* with the error the transport raised.
C26_NoLifecycleRecord ==
    (call.op \in HandleOps /\ GivenHandle # <<>>) =>
        /\ transport.log # <<>>
        /\ transport.log[1].fn \in {"doAction", "getFlightInfo"}
        /\ (call.outcome.kind = "rejected") =>
                /\ transport.reply.kind = "error"
                /\ call.outcome.error = transport.reply.error
        /\ (call.op = "closePreparedStatement") =>
                transport.log[1].action.body.value.preparedStatementHandle = GivenHandle
        /\ (call.op = "endTransaction") =>
                transport.log[1].action.body.value.transactionId = GivenHandle
        /\ (call.op = "executePreparedQuery") =>
                transport.log[1].descriptor.cmd.value.preparedStatementHandle = GivenHandle

\* C26 witness: a transaction id whose commit or rollback has resolved
\* before is committed again, and the second commit has resolved too.
C26_Witness ==
    /\ call.method = "commit"
    /\ GivenHandle # <<>>
    /\ GivenHandle \in closed
    /\ Invocations("doAction") = 1
    /\ call.outcome.kind = "resolved"

\* ---------------------------------------------------------------------
\* Claims about concurrent calls
\* ---------------------------------------------------------------------

\* the method of the invocation in slot s, run alone on its arguments up
\* to its first await
AloneStart(s) ==
    IF s.call.op = "query"
    THEN query(s.call.args.query, s.call.args.options)
    ELSE executeUpdate(s.call.args.query, s.call.args.options)

\* the same invocation alone, given the answer its transport call got
AloneOutcome(s) ==
    LET start == AloneStart(s)
        reply == s.transport.reply
    IN  CASE reply.kind = "none" -> start
          [] reply.kind = "info" ->
                Answered(start, reply, Resolved(start.call, reply.value))
          [] reply.kind = "results" ->
                Answered(start, reply, CollectResume(start.call, reply.value))
          [] reply.kind = "error" ->
                Answered(start, reply, Rejected(start.call, reply.error))

C28_OffsetIncreases ==
    [][(codec.pc = "scan" /\ codec'.pc = "scan") => codec'.offset > codec.offset]_vars

\* a scan that is back at an offset it has left behind with nothing
\* changed repeats itself for ever
C28_ScanNeverEnds ==
    /\ codec.pc = "scan"
    /\ codec.offset < 0
    /\ unpackAny(codec.buffer) = Diverges

\* ---------------------------------------------------------------------
\* Claims about the bytes and the order of the result streams
\* ---------------------------------------------------------------------

\* the bytes of the records received, in arrival order, each record's
\* header before its body
RECURSIVE BytesOf(_)
BytesOf(records) ==
    IF records = <<>> THEN <<>>
    ELSE Head(records).dataHeader \o Head(records).dataBody \o BytesOf(Tail(records))

\* C29: the bytes flightInfoToTable hands to the table decoder are exactly
\* the concatenation, in endpoint order and within an endpoint in arrival
\* order, of each record's header followed by its body: no byte received
\* is dropped, duplicated or reordered.
C29_BytesInOrder ==
    (HelperEnded("flightInfoToTable") /\ call.outcome.kind = "resolved") =>
        /\ call.outcome.value = tableFromIPC(BytesOf(transport.yielded))
        /\ DoGetTickets = TicketsOf(call.args.info.endpoint)

\* C29 witness: flightInfoToTable over two ticketed endpoints received a
\* record with a body only and then a record with a header only, and
\* handed over the body's bytes followed by the header's.
C29_Witness ==
    /\ HelperEnded("flightInfoToTable")
    /\ DoGetTickets = <<<<2>>, <<1>>>>
    /\ transport.yielded = <<[dataHeader |-> <<>>, dataBody |-> <<8, 9>>],
                             [dataHeader |-> <<7>>, dataBody |-> <<>>]>>
    /\ call.local.i = 2
    /\ call.outcome = [kind |-> "resolved", value |-> tableFromIPC(<<8, 9, 7>>)]

\* C30: flightInfoToTable and iterateResults fetch the endpoints strictly
\* one after the other: doGet is not called for an endpoint until the
\* stream of every earlier ticketed endpoint has been read to its end, so
\* that at most one stream is open at any time, the one opened last.
C30_SequentialFetch ==
    (call.op \in {"flightInfoToTable", "iterateResults"}) =>
        /\ (call.pc = "awaitGet") => Len(DoGetTickets) = EndedStreams(transport) + 1
        /\ (call.pc = "done" /\ transport.reply.kind # "error") =>
                Len(DoGetTickets) = EndedStreams(transport)
        /\ Len(DoGetTickets) <= Len(TicketsOf(call.args.info.endpoint))

\* C30 witness: iterateResults over two ticketed endpoints has read the
\* first stream to its end and is reading the second, after two records
\* handed to its consumer.
C30_Witness ==
    /\ call.op = "iterateResults"
    /\ call.pc = "awaitGet"
    /\ DoGetTickets = <<<<2>>, <<1>>>>
    /\ EndedStreams(transport) = 1
    /\ Len(call.local.out) = 2

====
